---- MODULE Spec2Model ----
(***************************************************************************)
(* A model of the Advent of Code 2022 solvers of this repository.  Every   *)
(* program reads one text file, computes two answers and prints them.      *)
(* Text is modelled as TLA+ strings, character by character; the answers   *)
(* are computed by operators that follow the Rust code statement by        *)
(* statement.  Integers are those of TLC (32 bits): the inputs of the      *)
(* model keep every value far inside that range, and so inside the range   *)
(* of the u64, i64 and usize of the code.                                  *)
(***************************************************************************)
EXTENDS Integers, Sequences, FiniteSets, TLC

VARIABLES
    day,      \* which program (binary) runs, or which function is studied
    input,    \* the input of the run: the file's text, or the arguments of a function
    pc,       \* position of the run
    stdout,   \* everything written to standard output so far (main programs)
    result    \* what the function under study returned (function specifications)

vars == <<day, input, pc, stdout, result>>

----------------------------------------------------------------------------
(* Results, and the ? operator of Rust.                                    *)

Ok(v) == [ok |-> TRUE, val |-> v]
Err == [ok |-> FALSE, val |-> 0]

\* r?  followed by the rest of the function, F, applied to the value of r.
Try(r, F(_)) == IF r.ok THEN F(r.val) ELSE Err

\* Result::map
MapOk(r, F(_)) == IF r.ok THEN Ok(F(r.val)) ELSE Err

Max(a, b) == IF a >= b THEN a ELSE b
Min(a, b) == IF a <= b THEN a ELSE b
Abs(a) == IF a >= 0 THEN a ELSE -a

----------------------------------------------------------------------------
(* Text helpers: &str operations of the Rust standard library.             *)

Char(s, i) == SubSeq(s, i, i)

\* str::find(pat) from position `from` on: the first index (1-based) at which
\* pat occurs, 0 when it does not occur.
RECURSIVE FindFrom(_, _, _)
FindFrom(s, pat, from) ==
    IF from + Len(pat) - 1 > Len(s) THEN 0
    ELSE IF SubSeq(s, from, from + Len(pat) - 1) = pat THEN from
    ELSE FindFrom(s, pat, from + 1)

Find(s, pat) == FindFrom(s, pat, 1)

\* The pieces of a text from the pieces of its two halves: the last piece of
\* the first half and the first of the second are one piece.
JoinPieces(L, R) ==
    SubSeq(L, 1, Len(L) - 1) \o <<L[Len(L)] \o R[1]>> \o SubSeq(R, 2, Len(R))

\* str::split(sep) for a separator of one character: the pieces between its
\* occurrences, computed half by half.
RECURSIVE Split(_, _)
Split(s, sep) ==
    IF Len(s) = 0 THEN <<"">>
    ELSE IF Len(s) = 1 THEN (IF s = sep THEN <<"", "">> ELSE <<s>>)
    ELSE JoinPieces(Split(SubSeq(s, 1, Len(s) \div 2), sep),
                    Split(SubSeq(s, Len(s) \div 2 + 1, Len(s)), sep))

\* str::split_once(' ')
SplitOnceAt(s, sep, i) ==
    IF i = 0 THEN Err ELSE Ok(<<SubSeq(s, 1, i - 1), SubSeq(s, i + Len(sep), Len(s))>>)

SplitOnce(s, sep) == SplitOnceAt(s, sep, Find(s, sep))

StripCr(l) ==
    IF Len(l) > 0 /\ Char(l, Len(l)) = "\r" THEN SubSeq(l, 1, Len(l) - 1) ELSE l

\* str::lines() from the pieces between the "\n": a final empty piece is no
\* line; a trailing "\r" of a line is dropped.
LinesOfPieces(pieces) ==
    [i \in 1..(IF pieces[Len(pieces)] = "" THEN Len(pieces) - 1 ELSE Len(pieces)) |->
        StripCr(pieces[i])]

Lines(text) == LinesOfPieces(Split(text, "\n"))

\* The concatenation of the strings q[lo], ..., q[hi].
RECURSIVE Concat(_, _, _)
Concat(q, lo, hi) ==
    IF lo > hi THEN ""
    ELSE IF lo = hi THEN q[lo]
    ELSE Concat(q, lo, (lo + hi) \div 2) \o Concat(q, (lo + hi) \div 2 + 1, hi)

\* Joins lines into a text, every line ended by "\n".
Unlines(ls) == Concat([i \in 1..Len(ls) |-> ls[i] \o "\n"], 1, Len(ls))

Digits == "0123456789"

IsDigit(c) == \E d \in 1..10 : Char(Digits, d) = c

DigitVal(c) == (CHOOSE d \in 1..10 : Char(Digits, d) = c) - 1

\* The value of a string of digits.
RECURSIVE DigitsVal(_)
DigitsVal(s) ==
    IF Len(s) = 0 THEN 0
    ELSE 10 * DigitsVal(SubSeq(s, 1, Len(s) - 1)) + DigitVal(Char(s, Len(s)))

AllDigits(s) == Len(s) > 0 /\ \A i \in 1..Len(s) : IsDigit(Char(s, i))

ParseDigits(body) == IF AllDigits(body) THEN Ok(DigitsVal(body)) ELSE Err

\* str::parse::<u64>() (also u32, usize): an optional "+", then digits.
ParseUnsigned(s) ==
    IF Len(s) > 0 /\ Char(s, 1) = "+" THEN ParseDigits(SubSeq(s, 2, Len(s)))
    ELSE ParseDigits(s)

Negate(v) == -v

\* str::parse::<i64>() (also i32): an optional "+" or "-", then digits.
ParseSigned(s) ==
    IF Len(s) > 0 /\ Char(s, 1) = "-" THEN MapOk(ParseDigits(SubSeq(s, 2, Len(s))), Negate)
    ELSE ParseUnsigned(s)

RECURSIVE SumSeq(_)
SumSeq(q) == IF q = <<>> THEN 0 ELSE Head(q) + SumSeq(Tail(q))

Reverse(q) == [i \in 1..Len(q) |-> q[Len(q) + 1 - i]]

\* iter().take(n)
Take(q, n) == SubSeq(q, 1, Min(n, Len(q)))

----------------------------------------------------------------------------
(* day02: rock, paper, scissors.                                           *)

score_of(opponent, player) ==
    (CASE opponent = player -> 3
       [] <<opponent, player>> \in {<<"Rock", "Paper">>, <<"Paper", "Scissors">>,
                                    <<"Scissors", "Rock">>} -> 6
       [] OTHER -> 0)
    + (CASE player = "Rock" -> 1 [] player = "Paper" -> 2 [] player = "Scissors" -> 3)

part1_round_score(line) ==
    CASE line = "A X" -> score_of("Rock", "Rock")
      [] line = "A Y" -> score_of("Rock", "Paper")
      [] line = "A Z" -> score_of("Rock", "Scissors")
      [] line = "B X" -> score_of("Paper", "Rock")
      [] line = "B Y" -> score_of("Paper", "Paper")
      [] line = "B Z" -> score_of("Paper", "Scissors")
      [] line = "C X" -> score_of("Scissors", "Rock")
      [] line = "C Y" -> score_of("Scissors", "Paper")
      [] line = "C Z" -> score_of("Scissors", "Scissors")
      [] OTHER -> 0

part2_round_score(line) ==
    CASE line = "A X" -> score_of("Rock", "Scissors")
      [] line = "A Y" -> score_of("Rock", "Rock")
      [] line = "A Z" -> score_of("Rock", "Paper")
      [] line = "B X" -> score_of("Paper", "Rock")
      [] line = "B Y" -> score_of("Paper", "Paper")
      [] line = "B Z" -> score_of("Paper", "Scissors")
      [] line = "C X" -> score_of("Scissors", "Paper")
      [] line = "C Y" -> score_of("Scissors", "Scissors")
      [] line = "C Z" -> score_of("Scissors", "Rock")
      [] OTHER -> 0

\* calculate_part(input, func): the sum of func over the lines.
calculate_part(text, func(_)) ==
    Ok(SumSeq([i \in 1..Len(Lines(text)) |-> func(Lines(text)[i])]))

----------------------------------------------------------------------------
(* day06: the first window of N distinct characters.                       *)

RECURSIVE FindWindow(_, _, _)
FindWindow(s, N, i) ==
    IF i + N - 1 > Len(s) THEN Err
    ELSE IF Cardinality({Char(s, j) : j \in i..(i + N - 1)}) = N THEN Ok(i - 1 + N)
    ELSE FindWindow(s, N, i + 1)

find_header(N, s) == FindWindow(s, N, 1)

Day06Part1Width == 4
Day06Part2Width == 14

day06_part1(text) == find_header(Day06Part1Width, text)
day06_part2(text) == find_header(Day06Part2Width, text)

----------------------------------------------------------------------------
(* day01: calories per elf.                                                *)

\* The loop of main over the lines: a blank line pushes the running sum and
\* resets it, any other line is parsed and added.  Returns the elves vector,
\* or Err when a line does not parse.
RECURSIVE Day01Loop(_, _, _)
Day01Loop(ls, elves, elf) ==
    IF ls = <<>> THEN Ok(elves)
    ELSE IF Head(ls) = "" THEN Day01Loop(Tail(ls), Append(elves, elf), 0)
    ELSE Try(ParseUnsigned(Head(ls)), LAMBDA n : Day01Loop(Tail(ls), elves, elf + n))

\* Insertion of v into a sequence sorted in descending order.
RECURSIVE InsertDesc(_, _)
InsertDesc(q, v) ==
    IF q = <<>> THEN <<v>>
    ELSE IF v >= Head(q) THEN <<v>> \o q
    ELSE <<Head(q)>> \o InsertDesc(Tail(q), v)

\* sort_unstable_by_key(|e| Reverse(*e)): descending order.
RECURSIVE SortDesc(_)
SortDesc(q) == IF q = <<>> THEN <<>> ELSE InsertDesc(SortDesc(Tail(q)), Head(q))

Day01TopCount == 3

\* elves.first().unwrap(): Err stands for the panic on an empty vector.
FirstUnwrap(q) == IF q = <<>> THEN Err ELSE Ok(q[1])

\* main up to its first println.
day01_part1(text) ==
    Try(Day01Loop(Lines(text), <<>>, 0), LAMBDA elves : FirstUnwrap(SortDesc(elves)))

\* main from there to its second println.
day01_part2(text) ==
    Try(Day01Loop(Lines(text), <<>>, 0),
        LAMBDA elves : Ok(SumSeq(Take(SortDesc(elves), Day01TopCount))))

----------------------------------------------------------------------------
(* day09: rope simulation.                                                 *)

Signum(a) == IF a > 0 THEN 1 ELSE IF a < 0 THEN -1 ELSE 0

move_head(dir, head) ==
    CASE dir = "L" -> <<head[1] - 1, head[2]>>
      [] dir = "R" -> <<head[1] + 1, head[2]>>
      [] dir = "D" -> <<head[1], head[2] - 1>>
      [] dir = "U" -> <<head[1], head[2] + 1>>
      [] OTHER -> head

\* One knot t following the knot h before it: its new place, or t itself
\* when it is close enough.
Follow(h, t) ==
    IF Abs(t[1] - h[1]) > 1 \/ Abs(t[2] - h[2]) > 1
    THEN <<t[1] + Signum(h[1] - t[1]), t[2] + Signum(h[2] - t[2])>>
    ELSE t

\* simulate_rope from knot i on (0-based i as in the code, the rope 1-based):
\* returns the rope and whether the tail moved.
RECURSIVE SimulateFrom(_, _)
SimulateFrom(rope, i) ==
    IF i >= Len(rope) - 1 THEN [rope |-> rope, moved |-> TRUE]
    ELSE IF Follow(rope[i + 1], rope[i + 2]) # rope[i + 2]
    THEN SimulateFrom([rope EXCEPT ![i + 2] = Follow(rope[i + 1], rope[i + 2])], i + 1)
    ELSE [rope |-> rope, moved |-> FALSE]

simulate_rope(rope) == SimulateFrom(rope, 0)

\* if simulate_rope(&mut rope) { visited.insert(rope[N - 1]); }
Visit(r, visited) ==
    [rope |-> r.rope,
     visited |-> IF r.moved THEN visited \cup {r.rope[Len(r.rope)]} ELSE visited]

\* The inner loop "for _ in 0..amount" on the state st = (rope, visited).
RECURSIVE Day09Steps(_, _, _)
Day09Steps(dir, amount, st) ==
    IF amount <= 0 THEN st
    ELSE Day09Steps(dir, amount - 1,
                    Visit(simulate_rope([st.rope EXCEPT ![1] = move_head(dir, st.rope[1])]),
                          st.visited))

\* The loop over the lines.
RECURSIVE Day09Lines(_, _)
Day09Lines(ls, st) ==
    IF ls = <<>> THEN Ok(st.visited)
    ELSE Try(SplitOnce(Head(ls), " "),
             LAMBDA sp : Try(ParseSigned(sp[2]),
                             LAMBDA amount : Day09Lines(Tail(ls),
                                                        Day09Steps(sp[1], amount, st))))

run_simulation(N, text) ==
    Day09Lines(Lines(text), [rope |-> [i \in 1..N |-> <<0, 0>>], visited |-> {<<0, 0>>}])

Day09Part1Knots == 2
Day09Part2Knots == 10

day09_part1(text) == MapOk(run_simulation(Day09Part1Knots, text), Cardinality)
day09_part2(text) == MapOk(run_simulation(Day09Part2Knots, text), Cardinality)

----------------------------------------------------------------------------
(* day05: crate stacks.                                                    *)

\* Instruction::parse on the space-separated pieces t of the line: the first
\* six must be  move <amount> from <from> to <to>; further pieces are not
\* looked at.
InstructionOfPieces(t) ==
    IF Len(t) >= 6 /\ t[1] = "move" /\ t[3] = "from" /\ t[5] = "to"
    THEN Try(ParseUnsigned(t[2]), LAMBDA amount :
         Try(ParseUnsigned(t[4]), LAMBDA from :
         Try(ParseUnsigned(t[6]), LAMBDA to :
             Ok([from |-> from, to |-> to, amount |-> amount]))))
    ELSE Err

Instruction_parse(line) == InstructionOfPieces(Split(line, " "))

IsAsciiWhitespace(c) == c \in {" ", "\t", "\n", "\r"}

\* The characters of column x (1-based) of the given lines, first line first,
\* lines too short and whitespace left out.
RECURSIVE ColumnOf(_, _)
ColumnOf(ls, x) ==
    IF ls = <<>> THEN ""
    ELSE (IF x <= Len(Head(ls)) /\ ~IsAsciiWhitespace(Char(Head(ls), x))
          THEN Char(Head(ls), x) ELSE "") \o ColumnOf(Tail(ls), x)

\* The indices of the digits of a line, in order.
RECURSIVE DigitColumns(_, _)
DigitColumns(line, x) ==
    IF x > Len(line) THEN <<>>
    ELSE (IF IsDigit(Char(line, x)) THEN <<x>> ELSE <<>>) \o DigitColumns(line, x + 1)

\* One stack per digit column of the last line, bottom crate first.
StacksOf(above, cols) == [i \in 1..Len(cols) |-> ColumnOf(above, cols[i])]

\* CargoState::parse on the lines of the setup.
CargoOfLines(ls) ==
    IF ls = <<>> THEN Err
    ELSE Ok(StacksOf(Reverse(SubSeq(ls, 1, Len(ls) - 1)), DigitColumns(ls[Len(ls)], 1)))

CargoState_parse(setup) == CargoOfLines(Lines(setup))

\* .map(Instruction::parse).filter_map(Result::ok): the instruction lines
\* that do not parse are left out.
RECURSIVE OkInstructions(_)
OkInstructions(ls) ==
    IF ls = <<>> THEN <<>>
    ELSE (IF Instruction_parse(Head(ls)).ok THEN <<Instruction_parse(Head(ls)).val>>
          ELSE <<>>) \o OkInstructions(Tail(ls))

\* parse_input, split_idx the place of the first "\n\n" (0: none, and unwrap
\* panics).
ParseInputAt(text, split_idx) ==
    IF split_idx = 0 THEN Err
    ELSE Try(CargoState_parse(SubSeq(text, 1, split_idx)),
             LAMBDA cargo :
                Ok([cargo |-> cargo,
                    instructions |->
                        OkInstructions(Lines(SubSeq(text, split_idx + 1, Len(text))))]))

day05_parse_input(text) == ParseInputAt(text, Find(text, "\n\n"))

\* One crate moved from the top of stack from to the top of stack to.
MoveOne(stacks, from, to) ==
    [stacks EXCEPT
        ![from] = SubSeq(stacks[from], 1, Len(stacks[from]) - 1),
        ![to] = (IF to = from THEN SubSeq(stacks[from], 1, Len(stacks[from]) - 1)
                 ELSE stacks[to]) \o Char(stacks[from], Len(stacks[from]))]

\* apply_instruction_part1, k crates moved so far: Err stands for a panic
\* (index out of range, or "no crate to pick").
RECURSIVE apply_instruction_part1(_, _, _)
apply_instruction_part1(stacks, inst, k) ==
    IF k >= inst.amount THEN Ok(stacks)
    ELSE IF inst.from < 1 \/ inst.from > Len(stacks) THEN Err
    ELSE IF stacks[inst.from] = "" THEN Err
    ELSE IF inst.to < 1 \/ inst.to > Len(stacks) THEN Err
    ELSE apply_instruction_part1(MoveOne(stacks, inst.from, inst.to), inst, k + 1)

\* The last n crates of stack from moved, in their order, to stack to.
MoveMany(stacks, from, to, n) ==
    [stacks EXCEPT
        ![from] = SubSeq(stacks[from], 1, Len(stacks[from]) - n),
        ![to] = (IF to = from THEN SubSeq(stacks[from], 1, Len(stacks[from]) - n)
                 ELSE stacks[to])
                \o SubSeq(stacks[from], Len(stacks[from]) - n + 1, Len(stacks[from]))]

\* apply_instruction_part2: Err stands for a panic (from or to out of range,
\* or more crates asked for than the stack holds).
apply_instruction_part2(stacks, inst) ==
    IF inst.from < 1 \/ inst.to < 1 THEN Err
    ELSE IF inst.from > Len(stacks) THEN Err
    ELSE IF Len(stacks[inst.from]) < inst.amount THEN Err
    ELSE IF inst.to > Len(stacks) THEN Err
    ELSE Ok(MoveMany(stacks, inst.from, inst.to, inst.amount))

\* The function handed to run: CargoState::apply_instruction_part1 or
\* CargoState::apply_instruction_part2.
apply_instruction(part, stacks, inst) ==
    IF part = 1 THEN apply_instruction_part1(stacks, inst, 0)
    ELSE apply_instruction_part2(stacks, inst)

\* The loop of run over the instructions.
RECURSIVE Day05Apply(_, _, _)
Day05Apply(stacks, insts, part) ==
    IF insts = <<>> THEN Ok(stacks)
    ELSE Try(apply_instruction(part, stacks, Head(insts)),
             LAMBDA moved : Day05Apply(moved, Tail(insts), part))

\* get_code: the top crate of every stack; Err stands for the panic of unwrap
\* on an empty stack.
get_code(stacks) ==
    IF \E i \in 1..Len(stacks) : stacks[i] = "" THEN Err
    ELSE Ok(Concat([i \in 1..Len(stacks) |-> Char(stacks[i], Len(stacks[i]))],
                   1, Len(stacks)))

day05_run(text, part) ==
    Try(day05_parse_input(text),
        LAMBDA p : Try(Day05Apply(p.cargo, p.instructions, part), get_code))

----------------------------------------------------------------------------
(* day10: the CRT.                                                         *)

\* Instruction::parse on the pieces of the line: "noop" followed by anything,
\* or "addx <v>".
Day10InstructionOfPieces(parts) ==
    IF parts[1] = "noop" THEN Ok([op |-> "Noop", v |-> 0])
    ELSE IF Len(parts) = 2 /\ parts[1] = "addx"
    THEN Try(ParseSigned(parts[2]), LAMBDA v : Ok([op |-> "Addx", v |-> v]))
    ELSE Err

day10_Instruction_parse(line) == Day10InstructionOfPieces(Split(line, " "))

cycles(inst) == IF inst.op = "Noop" THEN 1 ELSE 2

\* One instruction run with the register at x: the values of x during its
\* cycles, and the register after it.
Day10Run(inst, x) ==
    [out |-> [k \in 1..cycles(inst) |-> x],
     x |-> IF inst.op = "Addx" THEN x + inst.v ELSE x]

\* What two stretches of instructions do, one after the other.
Day10Then(first, second) == [out |-> first.out \o second.out, x |-> second.x]

\* simulate_machine: the loop over the lines lo..hi, x the register before
\* line lo: the values of x during the cycles of these lines, and the
\* register after them.  The lines are run in order, the first half of the
\* stretch before the second.
RECURSIVE Day10Simulate(_, _, _, _)
Day10Simulate(ls, lo, hi, x) ==
    IF lo > hi THEN Ok([out |-> <<>>, x |-> x])
    ELSE IF lo = hi
    THEN Try(day10_Instruction_parse(ls[lo]), LAMBDA inst : Ok(Day10Run(inst, x)))
    ELSE Try(Day10Simulate(ls, lo, (lo + hi) \div 2, x),
             LAMBDA first :
                Try(Day10Simulate(ls, (lo + hi) \div 2 + 1, hi, first.x),
                    LAMBDA second : Ok(Day10Then(first, second))))

Day10Out(r) == r.out

Day10SimulateLines(ls) == MapOk(Day10Simulate(ls, 1, Len(ls), 1), Day10Out)

simulate_machine(text) == Day10SimulateLines(Lines(text))

Day10Samples == <<19, 59, 99, 139, 179, 219>>

\* The sum of part1: Err stands for the panic of indexing x_values out of
\* range.
SignalSum(xs) ==
    IF \E k \in 1..Len(Day10Samples) : Day10Samples[k] + 1 > Len(xs) THEN Err
    ELSE Ok(SumSeq([k \in 1..Len(Day10Samples) |->
                      xs[Day10Samples[k] + 1] * (1 + Day10Samples[k])]))

day10_part1(text) == Try(simulate_machine(text), SignalSum)

ScreenRows == 6
ScreenColumns == 40

\* Row y of the screen, ended by "\n".
Day10Row(xs, y) ==
    Concat([x1 \in 1..ScreenColumns |->
              IF Abs((x1 - 1) - xs[(x1 - 1) + y * ScreenColumns + 1]) <= 1 THEN "#" ELSE "."],
           1, ScreenColumns) \o "\n"

\* The screen of part2: Err stands for the panic of indexing x_values out of
\* range.
Day10Screen(xs) ==
    IF Len(xs) < ScreenRows * ScreenColumns THEN Err
    ELSE Ok(Concat([y1 \in 1..ScreenRows |-> Day10Row(xs, y1 - 1)], 1, ScreenRows))

day10_part2(text) == Try(simulate_machine(text), Day10Screen)

----------------------------------------------------------------------------
(* day15: sensors and beacons.                                             *)

\* Position::distance: the Manhattan distance.
distance(p, q) == Abs(p.x - q.x) + Abs(p.y - q.y)

\* Position::in_bounds
in_bounds(p, bounds) == 0 <= p.x /\ p.x <= bounds /\ 0 <= p.y /\ p.y <= bounds

\* The end of the digits that start at pos.
RECURSIVE DigitsEnd(_, _)
DigitsEnd(s, pos) ==
    IF pos <= Len(s) /\ IsDigit(Char(s, pos)) THEN DigitsEnd(s, pos + 1) ELSE pos

NonEmpty(start, end) == IF end > start THEN end ELSE 0

\* The regular expression -?\d+ at position pos: the index after the match,
\* 0 when there is none (or when pos is 0: the match before it failed).
MatchInt(s, pos) ==
    IF pos = 0 THEN 0
    ELSE IF pos <= Len(s) /\ Char(s, pos) = "-" THEN NonEmpty(pos + 1, DigitsEnd(s, pos + 1))
    ELSE NonEmpty(pos, DigitsEnd(s, pos))

\* A literal at position pos: the index after it, 0 when it is not there (or
\* when pos is 0).
MatchLit(s, pos, lit) ==
    IF pos > 0 /\ pos + Len(lit) - 1 <= Len(s) /\ SubSeq(s, pos, pos + Len(lit) - 1) = lit
    THEN pos + Len(lit) ELSE 0

\* The places where the four numbers of SENSOR_RE start and end when the
\* expression is tried at pos; the last is 0 when it does not match there.
SensorPlaces(s, pos) ==
    LET p1 == MatchLit(s, pos, "Sensor at x=")
        e1 == MatchInt(s, p1)
        p2 == MatchLit(s, e1, ", y=")
        e2 == MatchInt(s, p2)
        p3 == MatchLit(s, e2, ": closest beacon is at x=")
        e3 == MatchInt(s, p3)
        p4 == MatchLit(s, e3, ", y=")
        e4 == MatchInt(s, p4)
    IN  <<p1, e1, p2, e2, p3, e3, p4, e4>>

\* The four captures at these places.
CapturesAt(s, m) ==
    IF m[8] = 0 THEN Err
    ELSE Ok(<<SubSeq(s, m[1], m[2] - 1), SubSeq(s, m[3], m[4] - 1),
              SubSeq(s, m[5], m[6] - 1), SubSeq(s, m[7], m[8] - 1)>>)

\* Regex::captures: the leftmost match anywhere in the line.
RECURSIVE Captures(_, _)
Captures(s, pos) ==
    IF pos > Len(s) THEN Err
    ELSE IF CapturesAt(s, SensorPlaces(s, pos)).ok THEN CapturesAt(s, SensorPlaces(s, pos))
    ELSE Captures(s, pos + 1)

SensorOf(position, beacon) == [position |-> position, distance |-> distance(position, beacon)]

\* Position::new(captures[i].parse()?, captures[j].parse()?)
ParsePosition(sx, sy) ==
    Try(ParseSigned(sx), LAMBDA x : Try(ParseSigned(sy), LAMBDA y : Ok([x |-> x, y |-> y])))

\* Sensor::from_str
Sensor_from_str(s) ==
    Try(Captures(s, 1), LAMBDA c :
        Try(ParsePosition(c[1], c[2]), LAMBDA position :
            Try(ParsePosition(c[3], c[4]), LAMBDA beacon : Ok(SensorOf(position, beacon)))))

\* input.lines().map(parse).collect::<Result<Vec<_>, _>>()
RECURSIVE ParseSensors(_)
ParseSensors(ls) ==
    IF ls = <<>> THEN Ok(<<>>)
    ELSE Try(Sensor_from_str(Head(ls)),
             LAMBDA h : Try(ParseSensors(Tail(ls)), LAMBDA t : Ok(<<h>> \o t)))

\* Sensor::x_span_at_y: the range start..end (end exclusive), or None.
x_span_at_y(s, y) ==
    IF Abs(s.position.y - y) > s.distance THEN Err
    ELSE Ok([start |-> s.position.x - (s.distance - Abs(s.position.y - y)),
             end |-> s.position.x + (s.distance - Abs(s.position.y - y))])

\* Sensor::line_coefficients
line_coefficients(s) ==
    <<{s.position.y - s.position.x + s.distance + 1,
       s.position.y - s.position.x - s.distance - 1},
      {s.position.y + s.position.x + s.distance + 1,
       s.position.y + s.position.x - s.distance - 1}>>

\* The test of the closure of retain in part1, as the code writes it: both
\* arguments of min are r.end.
Overlaps(r, c) == Max(r.start, c.start) <= Min(r.end, r.end)

Hull(r, c) == [start |-> Min(r.start, c.start), end |-> Max(r.end, c.end)]

\* ranges.retain(..) of part1: one pass over the kept ranges, r growing as
\* ranges are merged into it.  Returns the kept ranges followed by the final r
\* (ranges.push(r)).
RECURSIVE Retain(_, _, _)
Retain(ranges, r, kept) ==
    IF ranges = <<>> THEN Append(kept, r)
    ELSE IF Overlaps(r, Head(ranges)) THEN Retain(Tail(ranges), Hull(r, Head(ranges)), kept)
    ELSE Retain(Tail(ranges), r, Append(kept, Head(ranges)))

\* The loop of part1 over the spans of the sensors.
RECURSIVE MergeSpans(_, _, _)
MergeSpans(sensors, y, ranges) ==
    IF sensors = <<>> THEN ranges
    ELSE IF ~x_span_at_y(Head(sensors), y).ok THEN MergeSpans(Tail(sensors), y, ranges)
    ELSE MergeSpans(Tail(sensors), y, Retain(ranges, x_span_at_y(Head(sensors), y).val, <<>>))

\* Range::count
RangeCount(r) == IF r.end > r.start THEN r.end - r.start ELSE 0

CountRanges(ranges) == SumSeq([i \in 1..Len(ranges) |-> RangeCount(ranges[i])])

\* part1 after parsing
part1_sensors(sensors, y) == CountRanges(MergeSpans(sensors, y, <<>>))

day15_part1(text, y) == Try(ParseSensors(Lines(text)), LAMBDA sensors : Ok(part1_sensors(sensors, y)))

\* i64 division, which truncates toward zero.
DivTrunc(a, b) == IF a >= 0 THEN a \div b ELSE -((-a) \div b)

Day15Tuning == 4000000

a_coefficients(sensors) == UNION {line_coefficients(sensors[i])[1] : i \in 1..Len(sensors)}
b_coefficients(sensors) == UNION {line_coefficients(sensors[i])[2] : i \in 1..Len(sensors)}

intersection(a, b) == [x |-> DivTrunc(b - a, 2), y |-> DivTrunc(b + a, 2)]

\* The two tests of the inner loop of part2: the intersection is in bounds
\* and out of the range of every sensor.
IsSolution(sensors, bounds, p) ==
    /\ in_bounds(p, bounds)
    /\ \A i \in 1..Len(sensors) : distance(sensors[i].position, p) > sensors[i].distance

TuningFrequency(p) == Day15Tuning * p.x + p.y

\* The orders in which a HashSet may yield its elements.
Orders(S) ==
    {q \in [1..Cardinality(S) -> S] : \A i, j \in 1..Cardinality(S) : q[i] = q[j] => i = j}

\* The body of the inner loop of part2 for the coefficients a and b: the
\* value returned, or Err when the loop goes on.
Part2Body(sensors, bounds, a, b) ==
    IF IsSolution(sensors, bounds, intersection(a, b))
    THEN Ok(TuningFrequency(intersection(a, b))) ELSE Err

\* The body for every pair of coefficients; it does not depend on the
\* iteration.
Part2Bodies(sensors, bounds) ==
    [a \in a_coefficients(sensors), b \in b_coefficients(sensors) |->
        Part2Body(sensors, bounds, a, b)]

\* The two nested loops of part2, the sets iterated in the orders as, bs:
\* the first value returned, or Err ("Could not find a solution").
RECURSIVE Part2Scan(_, _, _, _, _)
Part2Scan(bodies, as, bs, i, j) ==
    IF i > Len(as) THEN Err
    ELSE IF j > Len(bs) THEN Part2Scan(bodies, as, bs, i + 1, 1)
    ELSE IF bodies[as[i], bs[j]].ok THEN bodies[as[i], bs[j]]
    ELSE Part2Scan(bodies, as, bs, i, j + 1)

\* part2 after parsing, for every order of the two hash sets.
Part2Scans(bodies, A, B) == {Part2Scan(bodies, as, bs, 1, 1) : as \in Orders(A), bs \in Orders(B)}

part2_sensors(sensors, bounds) ==
    Part2Scans(Part2Bodies(sensors, bounds), a_coefficients(sensors), b_coefficients(sensors))

Day15Row == 2000000
Day15Bounds == 4000000

----------------------------------------------------------------------------
(* The main functions.  A run is at "start", then at "part1" once the first *)
(* println has written its line, then at "done" (main returned Ok) or at    *)
(* "failed" (main returned Err, or the program panicked; the diagnostic     *)
(* goes to standard error).                                                 *)

MaxLines == 2

\* Sequences of at most n elements of S.
SeqUpTo(S, n) == UNION {[1..k -> S] : k \in 0..n}

Day01Texts == {Unlines(ls) : ls \in SeqUpTo({"1", "20", "", "x"}, MaxLines + 1)}

Day02Texts == {Unlines(ls) : ls \in SeqUpTo({"A X", "B Z", "C Y", "A W", ""}, MaxLines)}

Day05Setup == "[A]    \n[B] [C]\n 1   2 \n"

Day05Texts ==
    {Day05Setup \o "\n" \o Unlines(ls) :
        ls \in SeqUpTo({"move 1 from 1 to 2", "move 2 from 2 to 1", "move 3 from 2 to 1",
                        "mov 1 from 1 to 2", "move x from 1 to 2", "move 1 from 3 to 1"},
                       MaxLines)}
    \cup {Day05Setup, "\n\n"}

Day06Examples ==
    {"mjqjpqmgbljsphdztnvjfqwrcgsmlb", "bvwbjplbgvbhsrlpgdmjqwftvncz",
     "zcfzfwzzqfrljwzlrfnpqdbhtmscgvjw"}

Day06Texts == UNION {{SubSeq(e, 1, n) : n \in 0..Len(e)} : e \in Day06Examples}

Day09Texts ==
    {Unlines(ls) : ls \in SeqUpTo({"R 4", "U 2", "L 3", "D 1", "X 2", "R", "R x"}, MaxLines)}

Day10Pattern == <<"addx 1", "addx -1", "noop">>

Day10Program(n) == Unlines([i \in 1..n |-> Day10Pattern[((i - 1) % 3) + 1]])

Day10Texts ==
    {Day10Program(n) \o tail : n \in {0, 3, 131, 132, 143, 144, 147},
                               tail \in {"", "noop 7\n", "jump 3\n", "addx\n"}}

Day15Texts ==
    {"",
     "Sensor at x=1, y=1: closest beacon is at x=1, y=2\n",
     "Sensor at x=-5, y=-5: closest beacon is at x=-5, y=-4\n",
     "Sensor at x=1, y=1: closest beacon is at x=1, y=2\nSensor at x=3, y=7: closest beacon is at x=3, y=9\n",
     "Sensor at x=3, y=7: closest beacon is at x=3, y=9\nSensor at x=1, y=1\n",
     "Sensor at x=1, y=1\n",
     "the Sensor at x=2, y=0: closest beacon is at x=2, y=-1.\n",
     "Sensor at x=-5, y=-5: closest beacon is at x=-5, y=-4\nbeacon\n"}

Texts(d) ==
    CASE d = "day01" -> Day01Texts
      [] d = "day02" -> Day02Texts
      [] d = "day05" -> Day05Texts
      [] d = "day06" -> Day06Texts
      [] d = "day09" -> Day09Texts
      [] d = "day10" -> Day10Texts
      [] d = "day15" -> Day15Texts

Days == {"day01", "day02", "day05", "day06", "day09", "day10", "day15"}

InitMain ==
    /\ day \in Days
    /\ input \in Texts(day)
    /\ pc = "start"
    /\ stdout = ""
    /\ result = <<>>

\* print! without the line terminator, in place of println!
PrintNoNewline(text) == stdout \o text

\* println!("{}", text)
Println(text) == stdout \o text \o "\n"

\* {} of a number
Display(v) == ToString(v)

\* {} of a String
DisplayStr(v) == v

\* One statement  println!("<label>{}", <part>(&input)?)  of the main function
\* of program d: r is what the part returned, Show the format of its value.
MainStep(d, from, to, r, label, Show(_)) ==
    /\ day = d
    /\ pc = from
    /\ IF r.ok
       THEN stdout' = Println(label \o Show(r.val)) /\ pc' = to
       ELSE pc' = "failed" /\ UNCHANGED stdout
    /\ UNCHANGED <<day, input, result>>

Day01Part1 == MainStep("day01", "start", "part1", day01_part1(input), "Part 1: ", Display)

Day01Part2 == MainStep("day01", "part1", "done", day01_part2(input), "Part 2: ", Display)

Day02Part1 ==
    MainStep("day02", "start", "part1", calculate_part(input, part1_round_score),
             "Part 1: ", Display)

Day02Part2 ==
    MainStep("day02", "part1", "done", calculate_part(input, part2_round_score),
             "Part 2: ", Display)

Day05Part1 ==
    MainStep("day05", "start", "part1", day05_run(input, 1),
             "Part 1: ", DisplayStr)

Day05Part2 ==
    MainStep("day05", "part1", "done", day05_run(input, 2),
             "Part 2: ", DisplayStr)

Day06Part1 == MainStep("day06", "start", "part1", day06_part1(input), "Part 1: ", Display)

Day06Part2 == MainStep("day06", "part1", "done", day06_part2(input), "Part 2: ", Display)

Day09Part1 == MainStep("day09", "start", "part1", day09_part1(input), "Part 1: ", Display)

Day09Part2 == MainStep("day09", "part1", "done", day09_part2(input), "Part 2: ", Display)

Day10Part1 == MainStep("day10", "start", "part1", day10_part1(input), "Part 1: ", Display)

Day10Part2 == MainStep("day10", "part1", "done", day10_part2(input), "Part 2:\n", DisplayStr)

Day15Part1 ==
    MainStep("day15", "start", "part1", day15_part1(input, Day15Row), "Part 1: ", Display)

\* part2 of day15 on the parsed sensors: the hash sets are iterated in an
\* order that differs from run to run.
Day15Part2Of(sensors) ==
    IF ~sensors.ok THEN MainStep("day15", "part1", "done", Err, "Part 2: ", Display)
    ELSE \E r \in part2_sensors(sensors.val, Day15Bounds) :
            MainStep("day15", "part1", "done", r, "Part 2: ", Display)

Day15Part2 == day = "day15" /\ pc = "part1" /\ Day15Part2Of(ParseSensors(Lines(input)))

NextMain ==
    \/ Day01Part1 \/ Day01Part2
    \/ Day02Part1 \/ Day02Part2
    \/ Day05Part1 \/ Day05Part2
    \/ Day06Part1 \/ Day06Part2
    \/ Day09Part1 \/ Day09Part2
    \/ Day10Part1 \/ Day10Part2
    \/ Day15Part1 \/ Day15Part2

SpecMain == InitMain /\ [][NextMain]_vars

----------------------------------------------------------------------------
(* What the main functions write.                                          *)

StartsWith(s, p) == Len(s) >= Len(p) /\ SubSeq(s, 1, Len(p)) = p

\* The two answer lines, and nothing else.
TwoAnswerLines(ls) ==
    /\ Len(ls) = 2
    /\ StartsWith(ls[1], "Part 1: ")
    /\ StartsWith(ls[2], "Part 2: ")

\* What day10 writes: the first answer line, the line "Part 2:", the rows of
\* the screen and an empty line.
ScreenLines(ls) ==
    /\ Len(ls) = ScreenRows + 3
    /\ StartsWith(ls[1], "Part 1: ")
    /\ ls[2] = "Part 2:"
    /\ \A k \in 3..(ScreenRows + 2) :
          /\ Len(ls[k]) = ScreenColumns
          /\ \A i \in 1..ScreenColumns : Char(ls[k], i) \in {"#", "."}
    /\ ls[ScreenRows + 3] = ""

\* C1 as stated: on a successful run every program writes exactly two lines,
\* "Part 1: <value>" and then "Part 2: <value>", day10 included.
C1_TwoLinesEveryDay == pc = "done" => TwoAnswerLines(Lines(stdout))

\* C1 as amended: on a successful run every program but day10 writes exactly
\* the two answer lines; day10 writes "Part 1: <value>", then the line
\* "Part 2:", then the six rows of forty characters of the screen and an
\* empty line.
C1_TwoLinesButDay10 ==
    pc = "done" =>
        IF day = "day10" THEN ScreenLines(Lines(stdout)) ELSE TwoAnswerLines(Lines(stdout))

\* A run of day10 that ended well, its screen written.
C1_Witness == pc = "done" /\ day = "day10" /\ Len(stdout) > ScreenRows * ScreenColumns

\* The lines a program expects: a round of day02, a move of day09, an
\* instruction of day10.
Day02Rounds == {"A X", "A Y", "A Z", "B X", "B Y", "B Z", "C X", "C Y", "C Z"}

IsMove(sp) == sp.ok /\ sp.val[1] \in {"L", "R", "U", "D"} /\ ParseUnsigned(sp.val[2]).ok

IsCpuInstruction(l) ==
    l = "noop" \/ (StartsWith(l, "addx ") /\ ParseSigned(SubSeq(l, 6, Len(l))).ok)

\* The instruction lines of day05: the lines after the empty line.
Day05InstructionLines(text) ==
    IF Find(text, "\n\n") = 0 THEN <<>>
    ELSE Lines(SubSeq(text, Find(text, "\n\n") + 2, Len(text)))

IsMoveInstruction(t) ==
    /\ Len(t) = 6 /\ t[1] = "move" /\ t[3] = "from" /\ t[5] = "to"
    /\ AllDigits(t[2]) /\ AllDigits(t[4]) /\ AllDigits(t[6])

WellFormed(d, text) ==
    CASE d = "day02" -> \A i \in 1..Len(Lines(text)) : Lines(text)[i] \in Day02Rounds
      [] d = "day05" -> \A i \in 1..Len(Day05InstructionLines(text)) :
                            IsMoveInstruction(Split(Day05InstructionLines(text)[i], " "))
      [] d = "day09" -> \A i \in 1..Len(Lines(text)) : IsMove(SplitOnce(Lines(text)[i], " "))
      [] d = "day10" -> \A i \in 1..Len(Lines(text)) : IsCpuInstruction(Lines(text)[i])
      [] OTHER -> TRUE

\* C2: an input line that does not match the expected format ends the run in
\* a fatal error: a run that ends well had only well-formed lines.
C2_MalformedLineIsFatal == pc = "done" => WellFormed(day, input)

\* C3: no partial result: a run that failed wrote nothing, a run that ended
\* well wrote both answers.
C3_BothAnswersOrNone ==
    /\ pc = "failed" => stdout = ""
    /\ pc = "done" => Find(stdout, "Part 1:") > 0 /\ Find(stdout, "Part 2:") > 0

----------------------------------------------------------------------------
(* day15: part1 and part2 applied to parsed reports.                       *)

MaxSensors == 2
MaxCoordinate == 2

\* The reports the functions are applied to: a sensor on a small grid and
\* its closest beacon.
Position(x, y) == [x |-> x, y |-> y]

BeaconOffsets == {<<0, 1>>, <<1, 1>>}

Reports ==
    {[position |-> Position(x, y), beacon |-> Position(x + o[1], y + o[2])] :
        x \in 0..MaxCoordinate, y \in 0..MaxCoordinate, o \in BeaconOffsets}

SensorsOf(reports) ==
    [i \in 1..Len(reports) |-> SensorOf(reports[i].position, reports[i].beacon)]

InitDay15 ==
    /\ day = "day15"
    /\ input \in [reports : UNION {[1..n -> Reports] : n \in 0..MaxSensors},
                  y : 0..1, bounds : 1..MaxCoordinate]
    /\ pc = "start"
    /\ stdout = ""
    /\ result = <<>>

\* part1(input, y)
ApplyPart1 ==
    /\ pc = "start"
    /\ result' = <<Ok(part1_sensors(SensorsOf(input.reports), input.y))>>
    /\ pc' = "part1"
    /\ UNCHANGED <<day, input, stdout>>

\* part2(input, bounds), the two hash sets yielding their elements in any
\* order.
ApplyPart2 ==
    /\ pc = "start"
    /\ \E r \in part2_sensors(SensorsOf(input.reports), input.bounds) : result' = <<r>>
    /\ pc' = "part2"
    /\ UNCHANGED <<day, input, stdout>>

NextDay15 == ApplyPart1 \/ ApplyPart2

SpecDay15 == InitDay15 /\ [][NextDay15]_vars

\* The elements of a set of numbers in ascending order.
Ascending(S) == CHOOSE q \in Orders(S) : \A i, j \in 1..Cardinality(S) : i < j => q[i] < q[j]

\* What part2 returns when both hash sets yield their elements in ascending
\* order.
Part2Ascending(sensors, bounds) ==
    Part2Scan(Part2Bodies(sensors, bounds), Ascending(a_coefficients(sensors)),
              Ascending(b_coefficients(sensors)), 1, 1)

\* C4: part2 is a function of its input: whatever the iteration orders of
\* its hash sets, it returns the value it returns for the ascending orders.
C4_Part2SameAnswer ==
    pc = "part2" => result[1] = Part2Ascending(SensorsOf(input.reports), input.bounds)

\* The positions of row y where a beacon cannot be: in the range of some
\* sensor, and not the position of a reported beacon.
Covered(reports, p) ==
    \E i \in 1..Len(reports) :
        distance(reports[i].position, p) <= distance(reports[i].position, reports[i].beacon)

IsBeacon(reports, p) == \E i \in 1..Len(reports) : reports[i].beacon = p

NoBeaconAt(reports, y) ==
    {x \in (0 - 2 * MaxCoordinate - 2)..(3 * MaxCoordinate + 2) :
        Covered(reports, Position(x, y)) /\ ~IsBeacon(reports, Position(x, y))}

\* C8: part1(input, y) is the number of positions of row y where a beacon
\* cannot be.
C8_Part1CountsNoBeacon ==
    pc = "part1" => result[1] = Ok(Cardinality(NoBeaconAt(input.reports, input.y)))

\* The points in bounds that are out of the range of every sensor.
Uncovered(reports, bounds) ==
    {p \in {Position(x, y) : x \in 0..bounds, y \in 0..bounds} : ~Covered(reports, p)}

\* C9: when exactly one point in bounds is out of the range of every sensor,
\* part2 returns 4000000 * x + y of that point, and so does not fail with
\* "Could not find a solution".
C9_Part2FindsThePoint ==
    pc = "part2" =>
        \A p \in Uncovered(input.reports, input.bounds) :
            Uncovered(input.reports, input.bounds) = {p} => result[1] = Ok(TuningFrequency(p))

----------------------------------------------------------------------------
(* day19: the search for the blueprint that opens the most geodes.         *)

\* Resource::all
Resource_all == <<"Ore", "Clay", "Obsidian", "Geode">>

ResourceCollection(ore, clay, obsidian) == [ore |-> ore, clay |-> clay, obsidian |-> obsidian]

\* ResourceCollection::of_type
of_type(c, r) ==
    CASE r = "Ore" -> c.ore
      [] r = "Clay" -> c.clay
      [] r = "Obsidian" -> c.obsidian
      [] OTHER -> 0

\* Blueprint::cost_of
cost_of(b, r) ==
    CASE r = "Ore" -> b.ore_robot
      [] r = "Clay" -> b.clay_robot
      [] r = "Obsidian" -> b.obsidian_robot
      [] OTHER -> b.geode_robot

SetMax(S) == CHOOSE m \in S : \A x \in S : x <= m

\* The entry of r0 in the map expensive of Blueprint::new
expensive(b, r0) == SetMax({of_type(cost_of(b, Resource_all[i]), r0) : i \in 1..4})

\* The four costs of a blueprint, most_expensive not yet computed.
BlueprintCosts(number, ore, clay, obsidian, geode) ==
    [number |-> number, ore_robot |-> ore, clay_robot |-> clay,
     obsidian_robot |-> obsidian, geode_robot |-> geode,
     most_expensive |-> ResourceCollection(0, 0, 0)]

WithMostExpensive(b) ==
    [b EXCEPT !.most_expensive =
        ResourceCollection(expensive(b, "Ore"), expensive(b, "Clay"), expensive(b, "Obsidian"))]

\* Blueprint::new
Blueprint_new(number, ore, clay, obsidian, geode) ==
    WithMostExpensive(BlueprintCosts(number, ore, clay, obsidian, geode))

\* State::new; the blueprint a state refers to is passed along with it.
State_new(max_ticks) ==
    [remaining_ticks |-> max_ticks, score |-> 0,
     resources |-> ResourceCollection(0, 0, 0),
     robots |-> ResourceCollection(1, 0, 0),
     relevant |-> Resource_all]

\* State::can_afford
can_afford(s, cost) ==
    /\ s.resources.ore >= cost.ore
    /\ s.resources.clay >= cost.clay
    /\ s.resources.obsidian >= cost.obsidian

saturating_sub(a, b) == IF a > b THEN a - b ELSE 0

\* weird_div_ceil: checked_div is None when b is 0.
weird_div_ceil(a, b) ==
    IF a = 0 THEN Ok(0) ELSE IF b = 0 THEN Err ELSE Ok(((a + b) - 1) \div b)

\* State::ticks_until_afford
ticks_until_afford(s, cost) ==
    Try(weird_div_ceil(saturating_sub(cost.ore, s.resources.ore), s.robots.ore), LAMBDA ore_ticks :
    Try(weird_div_ceil(saturating_sub(cost.clay, s.resources.clay), s.robots.clay), LAMBDA clay_ticks :
    Try(weird_div_ceil(saturating_sub(cost.obsidian, s.resources.obsidian), s.robots.obsidian),
        LAMBDA obsidian_ticks : Ok(Max(Max(ore_ticks, clay_ticks), obsidian_ticks)))))

\* State::build_robot
build_robot(s, r) ==
    CASE r = "Ore" -> [s EXCEPT !.robots.ore = @ + 1]
      [] r = "Clay" -> [s EXCEPT !.robots.clay = @ + 1]
      [] r = "Obsidian" -> [s EXCEPT !.robots.obsidian = @ + 1]
      [] OTHER -> [s EXCEPT !.score = @ + s.remaining_ticks]

\* State::try_pay: the state afterwards; it returns can_afford(s, cost).
try_pay(s, cost) ==
    IF ~can_afford(s, cost) THEN s
    ELSE [s EXCEPT !.resources = ResourceCollection(s.resources.ore - cost.ore,
                                                    s.resources.clay - cost.clay,
                                                    s.resources.obsidian - cost.obsidian)]

\* The first three statements of State::tick
Collect(s, n_ticks) ==
    [s EXCEPT !.remaining_ticks = @ - n_ticks,
              !.resources = ResourceCollection(s.resources.ore + s.robots.ore * n_ticks,
                                               s.resources.clay + s.robots.clay * n_ticks,
                                               s.resources.obsidian + s.robots.obsidian * n_ticks)]

\* The closure of relevant.retain in State::tick: r is kept when
\* max_required <= min_available.
Retained(b, s, r) ==
    s.remaining_ticks * of_type(b.most_expensive, r)
        <= of_type(s.resources, r) + s.remaining_ticks * of_type(s.robots, r)

RetainRelevant(b, s) == [s EXCEPT !.relevant = SelectSeq(s.relevant, LAMBDA r : Retained(b, s, r))]

\* State::tick
tick(b, s, n_ticks) == RetainRelevant(b, Collect(s, n_ticks))

\* The branch of State::try_wait_and_build that waits, pays and builds.
WaitAndBuild(b, s, r, wait) ==
    build_robot(tick(b, try_pay(tick(b, s, wait), cost_of(b, r)), 1), r)

\* State::try_wait_and_build: the state afterwards, or Err when it returns
\* false.
try_wait_and_build(b, s, r) ==
    Try(ticks_until_afford(s, cost_of(b, r)), LAMBDA wait :
        IF wait < s.remaining_ticks THEN Ok(WaitAndBuild(b, s, r, wait)) ELSE Err)

cheaper_obsidian(b) == [b.obsidian_robot EXCEPT !.ore = 0]
cheaper_geode(b) == [b.geode_robot EXCEPT !.ore = 0]

\* The robots built at the end of one iteration of the loop of upper_bound:
\* build_obsidian is the outcome of paying cheaper_geode, build_geode that
\* of paying cheaper_obsidian.
BuildIf(s, built, r) == IF built THEN build_robot(s, r) ELSE s

\* One iteration of the loop of upper_bound, s1, s2, s3 the states after the
\* three payments of s0.
UpperBoundBuild(b, s0, s1, s2, s3) ==
    BuildIf(BuildIf(BuildIf(build_robot(tick(b, s3, 1), "Ore"),
                            can_afford(s0, b.clay_robot), "Clay"),
                    can_afford(s1, cheaper_geode(b)), "Obsidian"),
            can_afford(s2, cheaper_obsidian(b)), "Geode")

UpperBoundPay3(b, s0, s1, s2) == UpperBoundBuild(b, s0, s1, s2, try_pay(s2, cheaper_obsidian(b)))
UpperBoundPay2(b, s0, s1) == UpperBoundPay3(b, s0, s1, try_pay(s1, cheaper_geode(b)))
UpperBoundStep(b, s) == UpperBoundPay2(b, s, try_pay(s, b.clay_robot))

\* State::upper_bound
RECURSIVE upper_bound(_, _)
upper_bound(b, s) ==
    IF s.remaining_ticks > 0 THEN upper_bound(b, UpperBoundStep(b, s)) ELSE s.score

\* The body of the loop over state.relevant in explore_blueprint: the states
\* pushed for the resources from the i-th on.
RECURSIVE Branches(_, _, _, _)
Branches(b, state, best_lower_bound, i) ==
    IF i > Len(state.relevant) THEN <<>>
    ELSE (IF /\ try_wait_and_build(b, state, state.relevant[i]).ok
             /\ upper_bound(b, try_wait_and_build(b, state, state.relevant[i]).val) > best_lower_bound
          THEN <<try_wait_and_build(b, state, state.relevant[i]).val>> ELSE <<>>)
         \o Branches(b, state, best_lower_bound, i + 1)

----------------------------------------------------------------------------
(* day19: explore_blueprint applied to blueprints.                         *)

MaxCost == 2
MaxTicks == 8

Part1Ticks == 24
Part2Ticks == 32

\* The blueprints whose costs are at most MaxCost, and the two of the
\* example.
SmallBlueprints ==
    {Blueprint_new(1, ResourceCollection(a, 0, 0), ResourceCollection(b, 0, 0),
                   ResourceCollection(c, d, 0), ResourceCollection(e, 0, f)) :
        a \in 1..MaxCost, b \in 1..MaxCost, c \in 1..MaxCost,
        d \in 1..MaxCost, e \in 1..MaxCost, f \in 1..MaxCost}

ExampleBlueprint1 ==
    Blueprint_new(1, ResourceCollection(4, 0, 0), ResourceCollection(2, 0, 0),
                  ResourceCollection(3, 14, 0), ResourceCollection(2, 0, 7))

ExampleBlueprint2 ==
    Blueprint_new(2, ResourceCollection(2, 0, 0), ResourceCollection(3, 0, 0),
                  ResourceCollection(3, 8, 0), ResourceCollection(3, 0, 12))

InitDay19 ==
    /\ day = "day19"
    /\ input \in [blueprint : SmallBlueprints, max_ticks : 1..MaxTicks]
                 \cup [blueprint : {ExampleBlueprint1, ExampleBlueprint2},
                       max_ticks : {Part1Ticks, Part2Ticks}]
    /\ pc = "start"
    /\ stdout = ""
    /\ result = <<>>

\* explore_blueprint up to its loop: the stack holds the first state.
ExploreStart ==
    /\ day = "day19" /\ pc = "start"
    /\ result' = [stack |-> <<State_new(input.max_ticks)>>, best_lower_bound |-> 0]
    /\ pc' = "explore"
    /\ UNCHANGED <<day, input, stdout>>

\* One iteration of the loop of explore_blueprint on the state popped.
Explored(stack, state, best_lower_bound) ==
    [stack |-> stack \o Branches(input.blueprint, state, best_lower_bound, 1),
     best_lower_bound |-> best_lower_bound]

ExploreState ==
    /\ day = "day19" /\ pc = "explore"
    /\ result.stack # <<>>
    /\ result' = Explored(SubSeq(result.stack, 1, Len(result.stack) - 1),
                          result.stack[Len(result.stack)],
                          Max(result.best_lower_bound, result.stack[Len(result.stack)].score))
    /\ UNCHANGED <<day, input, pc, stdout>>

\* The stack is empty: explore_blueprint returns best_lower_bound.
ExploreReturn ==
    /\ day = "day19" /\ pc = "explore"
    /\ result.stack = <<>>
    /\ result' = result.best_lower_bound
    /\ pc' = "done"
    /\ UNCHANGED <<day, input, stdout>>

NextDay19 == ExploreStart \/ ExploreState \/ ExploreReturn

SpecDay19 == InitDay19 /\ [][NextDay19]_vars

\* The most geodes that can be opened in the t minutes left, trying every
\* choice of each minute: to build nothing, or to build a robot that can be
\* paid for; the robots at work collect during the minute.
Collected(resources, robots, cost) ==
    ResourceCollection(resources.ore - cost.ore + robots.ore,
                       resources.clay - cost.clay + robots.clay,
                       resources.obsidian - cost.obsidian + robots.obsidian)

Affordable(b, resources) ==
    {r \in {"Ore", "Clay", "Obsidian", "Geode"} :
        /\ resources.ore >= cost_of(b, r).ore
        /\ resources.clay >= cost_of(b, r).clay
        /\ resources.obsidian >= cost_of(b, r).obsidian}

MoreRobots(robots, r) ==
    CASE r = "Ore" -> [robots EXCEPT !.ore = @ + 1]
      [] r = "Clay" -> [robots EXCEPT !.clay = @ + 1]
      [] r = "Obsidian" -> [robots EXCEPT !.obsidian = @ + 1]
      [] OTHER -> robots

RECURSIVE MostGeodes(_, _, _, _)
MostGeodes(b, t, resources, robots) ==
    IF t <= 1 THEN 0
    ELSE SetMax({MostGeodes(b, t - 1, Collected(resources, robots, ResourceCollection(0, 0, 0)), robots)}
                \cup {(IF r = "Geode" THEN t - 1 ELSE 0)
                        + MostGeodes(b, t - 1, Collected(resources, robots, cost_of(b, r)),
                                     MoreRobots(robots, r)) : r \in Affordable(b, resources)})

\* What the example says of its two blueprints.
ExampleGeodes(number, max_ticks) ==
    CASE number = 1 /\ max_ticks = Part1Ticks -> 9
      [] number = 1 /\ max_ticks = Part2Ticks -> 56
      [] number = 2 /\ max_ticks = Part1Ticks -> 12
      [] OTHER -> 62

\* C5: explore_blueprint(b, T) returns the most geodes that can be opened in
\* T minutes, starting with one ore robot and building at most one robot a
\* minute: 9 and 12 for the blueprints of the example at T = 24, 56 and 62 at
\* T = 32.
C5_ExploreFindsTheMost ==
    pc = "done" /\ day = "day19" =>
        IF input.max_ticks <= MaxTicks
        THEN result = MostGeodes(input.blueprint, input.max_ticks,
                                 ResourceCollection(0, 0, 0), ResourceCollection(1, 0, 0))
        ELSE result = ExampleGeodes(input.blueprint.number, input.max_ticks)

----------------------------------------------------------------------------
(* day18: the surface of the lava droplet.                                 *)

\* One line of the input: the three numbers of a point.  parts[2] panics
\* when there are fewer than three.
RECURSIVE ParseAll(_)
ParseAll(pieces) ==
    IF pieces = <<>> THEN Ok(<<>>)
    ELSE Try(ParseUnsigned(Head(pieces)),
             LAMBDA h : Try(ParseAll(Tail(pieces)), LAMBDA t : Ok(<<h>> \o t)))

PointOfParts(parts) == IF Len(parts) < 3 THEN Err ELSE Ok(<<parts[1], parts[2], parts[3]>>)

ParsePoint(l) == Try(ParseAll(Split(l, ",")), PointOfParts)

RECURSIVE ParsePoints(_)
ParsePoints(ls) ==
    IF ls = <<>> THEN Ok(<<>>)
    ELSE Try(ParsePoint(Head(ls)),
             LAMBDA h : Try(ParsePoints(Tail(ls)), LAMBDA t : Ok(<<h>> \o t)))

\* The cells of an array of the shape dim.
Cells(dim) == (0..(dim[1] - 1)) \X (0..(dim[2] - 1)) \X (0..(dim[3] - 1))

\* Array3::default(dim) with the points set to Lava, each moved by one.
GridOf(points, dim) ==
    [c \in Cells(dim) |->
        IF \E i \in 1..Len(points) :
              c = <<points[i][1] + 1, points[i][2] + 1, points[i][3] + 1>>
        THEN "Lava" ELSE "Air"]

\* The shape of the grid: room for the largest coordinate and one cell of
\* padding on either side.
ShapeOf(points) ==
    <<SetMax({points[i][1] : i \in 1..Len(points)}) + 3,
      SetMax({points[i][2] : i \in 1..Len(points)}) + 3,
      SetMax({points[i][3] : i \in 1..Len(points)}) + 3>>

\* try_build_grid after parsing: max() of no point is an error.
GridOfPoints(points) == IF points = <<>> THEN Err ELSE Ok(GridOf(points, ShapeOf(points)))

try_build_grid(text) == Try(ParsePoints(Lines(text)), GridOfPoints)

\* adjacent
adjacent(p) ==
    <<<<p[1], p[2], p[3] - 1>>, <<p[1], p[2], p[3] + 1>>,
      <<p[1], p[2] - 1, p[3]>>, <<p[1], p[2] + 1, p[3]>>,
      <<p[1] - 1, p[2], p[3]>>, <<p[1] + 1, p[2], p[3]>>>>

\* The centres of the windows of grid.windows([3, 3, 3]).
WindowCentres(grid) ==
    {c \in DOMAIN grid : \A i \in 1..6 : adjacent(c)[i] \in DOMAIN grid}

\* count_exposed_sides, counts_as_exposed being "is of the state exposed".
count_exposed_sides(grid, exposed) ==
    Cardinality({<<c, i>> \in WindowCentres(grid) \X (1..6) :
                    grid[c] = "Lava" /\ grid[adjacent(c)[i]] = exposed})

\* The loop of part2 that fills the edges with steam.
OnEdge(grid, c) == \E i \in 1..6 : adjacent(c)[i] \notin DOMAIN grid

FillEdges(grid) == [c \in DOMAIN grid |-> IF OnEdge(grid, c) THEN "Steam" ELSE grid[c]]

FloodStart == <<1, 1, 1>>

\* The neighbours of p that the loop of part2 pushes, from the i-th on: seen
\* grows as they are pushed.
RECURSIVE Pushed(_, _, _, _)
Pushed(grid, seen, p, i) ==
    IF i > 6 THEN <<>>
    ELSE IF grid[adjacent(p)[i]] = "Air" /\ adjacent(p)[i] \notin seen
    THEN <<adjacent(p)[i]>> \o Pushed(grid, seen \cup {adjacent(p)[i]}, p, i + 1)
    ELSE Pushed(grid, seen, p, i + 1)

ElementsOf(q) == {q[i] : i \in 1..Len(q)}

\* One iteration of the loop: p is popped and turned to steam, its
\* neighbours of air not yet seen are pushed.
Flooded(f, stack, p) ==
    [grid |-> [f.grid EXCEPT ![p] = "Steam"],
     seen |-> f.seen \cup ElementsOf(Pushed([f.grid EXCEPT ![p] = "Steam"], f.seen, p, 1)),
     stack |-> stack \o Pushed([f.grid EXCEPT ![p] = "Steam"], f.seen, p, 1),
     exposed_sides |-> 0]

----------------------------------------------------------------------------
(* day18: part2 applied to droplets.                                       *)

MaxCubes == 2
MaxCube == 2

Cubes == (0..MaxCube) \X (0..MaxCube) \X (0..MaxCube)

CubeLine(c) == Display(c[1]) \o "," \o Display(c[2]) \o "," \o Display(c[3])

\* The text of a droplet, one cube a line; and some texts that are none.
DropletText(cubes) == Unlines([i \in 1..Len(cubes) |-> CubeLine(cubes[i])])

Day18Texts ==
    {DropletText(cubes) : cubes \in SeqUpTo(Cubes, MaxCubes)}
        \cup {"1,2\n", "1,1,1\nx,1,1\n", "1,1,1,7\n", "0,0,0\n1,0,0\n2,0,0\n2,1,0\n2,2,0\n"}

\* debug_assert! is compiled in a debug build only.
Builds == {"debug", "release"}

InitDay18 ==
    /\ day = "day18"
    /\ input \in [text : Day18Texts, build : Builds]
    /\ pc = "start"
    /\ stdout = ""
    /\ result = <<>>

\* part2 up to its loop: the grid is built, its edges are filled with steam
\* and the stack holds the cell (1, 1, 1).  In a debug build the assertion
\* that this cell is air may fail.
FloodOf(grid) == [grid |-> FillEdges(grid), seen |-> {}, stack |-> <<FloodStart>>, exposed_sides |-> 0]

Part2Start(grid) ==
    IF ~grid.ok \/ (input.build = "debug" /\ grid.val[FloodStart] # "Air")
    THEN pc' = "failed" /\ UNCHANGED result
    ELSE pc' = "flood" /\ result' = FloodOf(grid.val)

Day18Start ==
    /\ day = "day18" /\ pc = "start"
    /\ Part2Start(try_build_grid(input.text))
    /\ UNCHANGED <<day, input, stdout>>

\* One iteration of the loop of part2.
Day18Flood ==
    /\ day = "day18" /\ pc = "flood"
    /\ result.stack # <<>>
    /\ result' = Flooded(result, SubSeq(result.stack, 1, Len(result.stack) - 1),
                         result.stack[Len(result.stack)])
    /\ UNCHANGED <<day, input, pc, stdout>>

\* The stack is empty: part2 counts the sides exposed to steam.
Day18Count ==
    /\ day = "day18" /\ pc = "flood"
    /\ result.stack = <<>>
    /\ result' = [result EXCEPT !.exposed_sides = count_exposed_sides(result.grid, "Steam")]
    /\ pc' = "done"
    /\ UNCHANGED <<day, input, stdout>>

NextDay18 == Day18Start \/ Day18Flood \/ Day18Count

SpecDay18 == InitDay18 /\ [][NextDay18]_vars

\* The cubes of a text, as a set.
CubesOf(text) == ElementsOf(ParsePoints(Lines(text)).val)

Neighbours(c) == ElementsOf(adjacent(c))

\* The box around the cubes, one cell wider on every side.
Around(cubes) ==
    ((0 - 1)..(SetMax({c[1] : c \in cubes}) + 1))
        \X ((0 - 1)..(SetMax({c[2] : c \in cubes}) + 1))
        \X ((0 - 1)..(SetMax({c[3] : c \in cubes}) + 1))

\* The cells of the box that are no lava and that the cells of S reach
\* through cells that are no lava.
Spread(S, cubes) == S \cup ((UNION {Neighbours(c) : c \in S} \cap Around(cubes)) \ cubes)

RECURSIVE Reached(_, _)
Reached(S, cubes) == IF Spread(S, cubes) = S THEN S ELSE Reached(Spread(S, cubes), cubes)

\* The exterior surface: the sides of the cubes that face a cell the outside
\* reaches.
ExteriorSides(cubes, outside) ==
    Cardinality({<<c, i>> \in cubes \X (1..6) : adjacent(c)[i] \in outside})

ExteriorSurface(cubes) == ExteriorSides(cubes, Reached({<<0 - 1, 0 - 1, 0 - 1>>}, cubes))

\* C10: part2 returns the exterior surface of the droplet, whatever its
\* cubes of non-negative coordinates, and the flood never overwrites a cube
\* of lava.
C10_Part2IsExteriorSurface ==
    day = "day18" =>
        /\ pc = "done" => result.exposed_sides = ExteriorSurface(CubesOf(input.text))
        /\ pc \in {"flood", "done"} =>
              \A c \in CubesOf(input.text) : result.grid[<<c[1] + 1, c[2] + 1, c[3] + 1>>] = "Lava"

----------------------------------------------------------------------------
(* day16: the valves and the dynamic programme of solve.                   *)

\* The key of the sort of the valves, Reverse((flow, name == "AA")): a is
\* not after b when its flow is larger, or the same and a is "AA" or b is
\* not.
KeyNotAfter(a, b) ==
    \/ a.flow > b.flow
    \/ a.flow = b.flow /\ (a.name = "AA" \/ b.name # "AA")

\* sort_unstable_by_key: the valves in an order sorted by the key; valves of
\* the same key come in any order.
SortedValves(valves) ==
    {[i \in 1..Len(valves) |-> valves[p[i]]] : p \in
        {p \in Orders(1..Len(valves)) :
            \A i, j \in 1..Len(valves) : i < j => KeyNotAfter(valves[p[i]], valves[p[j]])}}

\* name_idx: indices count from 0.
name_idx(valves, name) == (CHOOSE i \in 1..Len(valves) : valves[i].name = name) - 1

adjacency(valves) ==
    [i \in 1..Len(valves) |->
        [k \in 1..Len(valves[i].reachable) |-> name_idx(valves, valves[i].reachable[k])]]

n_with_flow(valves) == Cardinality({i \in 1..Len(valves) : valves[i].flow > 0})

RECURSIVE Pow2(_)
Pow2(n) == IF n = 0 THEN 1 ELSE 2 * Pow2(n - 1)

ScoreTimes == 30

\* The shape of score.
ScoreCells(valves) == (0..(Len(valves) - 1)) \X (0..(Pow2(n_with_flow(valves)) - 1))

\* SolveContext::try_from on the sorted valves; score is all zero.
SolveContext(valves) ==
    [valves |-> valves, adjacency |-> adjacency(valves), n_with_flow |-> n_with_flow(valves),
     score |-> [t \in 0..(ScoreTimes - 1) |-> [c \in ScoreCells(valves) |-> 0]]]

\* opened[i] and opened.set(i, true) of the bit set opened.
Bit(opened, i) == (opened \div Pow2(i)) % 2 = 1
SetBit(opened, i) == IF Bit(opened, i) THEN opened ELSE opened + Pow2(i)

U16 == 65536

\* A value of type u16: arithmetic wraps in a release build; in a debug
\* build it panics on overflow.
Wrap16(v) == v % U16

\* SolveContext::score_for_opening, and whether it overflows.
opening_score(ctx, time_remaining, standing_at) == ctx.valves[standing_at + 1].flow * time_remaining

afterwards_score(ctx, time_remaining, standing_at, opened) ==
    ctx.score[time_remaining - 1][<<standing_at, SetBit(opened, standing_at)>>]

score_for_opening(ctx, time_remaining, standing_at, opened) ==
    Wrap16(Wrap16(opening_score(ctx, time_remaining, standing_at))
            + afterwards_score(ctx, time_remaining, standing_at, opened))

OpeningOverflows(ctx, time_remaining, standing_at, opened) ==
    \/ opening_score(ctx, time_remaining, standing_at) >= U16
    \/ opening_score(ctx, time_remaining, standing_at)
         + afterwards_score(ctx, time_remaining, standing_at, opened) >= U16

\* SolveContext::score_for_moving
score_for_moving(ctx, time_remaining, moving_to, opened) ==
    ctx.score[time_remaining - 1][<<moving_to, opened>>]

\* The test of solve for opening the valve one stands at.
CanOpen(ctx, standing_at, opened) == standing_at < ctx.n_with_flow /\ ~Bit(opened, standing_at)

\* The body of the loop of solve: the scores of which the largest is stored.
Scores(ctx, time_remaining, standing_at, opened) ==
    {ctx.score[time_remaining - 1][<<standing_at, opened>>]}
        \cup (IF CanOpen(ctx, standing_at, opened)
              THEN {score_for_opening(ctx, time_remaining, standing_at, opened)} ELSE {})
        \cup {score_for_moving(ctx, time_remaining, ctx.adjacency[standing_at + 1][k], opened) :
                k \in 1..Len(ctx.adjacency[standing_at + 1])}

\* The iterations of the loop of solve for one time_remaining.
SolveTime(ctx, time_remaining) ==
    [ctx EXCEPT !.score[time_remaining] =
        [c \in DOMAIN ctx.score[time_remaining] |-> SetMax(Scores(ctx, time_remaining, c[1], c[2]))]]

SolveTimeOverflows(ctx, time_remaining) ==
    \E c \in DOMAIN ctx.score[time_remaining] :
        CanOpen(ctx, c[1], c[2]) /\ OpeningOverflows(ctx, time_remaining, c[1], c[2])

\* part1
Day16Part1Time == 29

day16_part1(ctx) == ctx.score[Day16Part1Time][<<name_idx(ctx.valves, "AA"), 0>>]

----------------------------------------------------------------------------
(* day16: solve applied to small networks of valves.                       *)

MaxFlow == 3

\* Flow rates: none, small ones, and one whose product with the minutes left
\* does not fit sixteen bits.
LargeFlow == 2500

Flows == (0..MaxFlow) \cup {LargeFlow}

Valve(name, flow, reachable) == [name |-> name, flow |-> flow, reachable |-> reachable]

\* Three valves in a line, in a triangle, or in a star around "AA".
Networks ==
    {<<Valve("AA", a, <<"BB">>), Valve("BB", b, <<"AA", "CC">>), Valve("CC", c, <<"BB">>)>> :
        a \in {0}, b \in Flows, c \in Flows}
    \cup {<<Valve("BB", b, <<"CC", "AA">>), Valve("CC", c, <<"AA", "BB">>), Valve("AA", a, <<"BB", "CC">>)>> :
        a \in Flows, b \in Flows, c \in {0, MaxFlow}}
    \cup {<<Valve("BB", b, <<"AA">>), Valve("AA", a, <<"BB", "CC">>), Valve("CC", c, <<"AA">>)>> :
        a \in {0, 1}, b \in Flows, c \in Flows}

InitDay16 ==
    /\ day = "day16"
    /\ input \in [valves : Networks, build : Builds]
    /\ pc = "start"
    /\ stdout = ""
    /\ result = <<>>

\* SolveContext::try_from
Day16Context ==
    /\ day = "day16" /\ pc = "start"
    /\ \E valves \in SortedValves(input.valves) :
          result' = [ctx |-> SolveContext(valves), time_remaining |-> 1, part1 |-> 0]
    /\ pc' = "solve"
    /\ UNCHANGED <<day, input, stdout>>

\* solve, one value of time_remaining at a time.
Day16Solve ==
    /\ day = "day16" /\ pc = "solve"
    /\ result.time_remaining < ScoreTimes
    /\ IF input.build = "debug" /\ SolveTimeOverflows(result.ctx, result.time_remaining)
       THEN pc' = "failed" /\ UNCHANGED result
       ELSE /\ result' = [result EXCEPT !.ctx = SolveTime(result.ctx, result.time_remaining),
                                        !.time_remaining = @ + 1]
            /\ UNCHANGED pc
    /\ UNCHANGED <<day, input, stdout>>

\* part1 after solve
Day16Part1 ==
    /\ day = "day16" /\ pc = "solve"
    /\ result.time_remaining = ScoreTimes
    /\ result' = [result EXCEPT !.part1 = day16_part1(result.ctx)]
    /\ pc' = "done"
    /\ UNCHANGED <<day, input, stdout>>

NextDay16 == Day16Context \/ Day16Solve \/ Day16Part1

SpecDay16 == InitDay16 /\ [][NextDay16]_vars

\* The valves that k tunnels lead to from the valve v (indices from 0).
RECURSIVE ReachedIn(_, _, _)
ReachedIn(ctx, v, k) ==
    IF k = 0 THEN {v}
    ELSE UNION {ElementsOf(ctx.adjacency[u + 1]) : u \in ReachedIn(ctx, v, k - 1)}

\* The targets worth walking to in the minutes left: closed valves with
\* flow, and the least number of tunnels to them.
Targets(ctx, minutes, v, opened) ==
    {<<u, k>> \in (0..(ctx.n_with_flow - 1)) \X (0..Len(ctx.valves)) :
        /\ ~Bit(opened, u)
        /\ k < minutes
        /\ u \in ReachedIn(ctx, v, k)
        /\ \A j \in 0..(k - 1) : u \notin ReachedIn(ctx, v, j)}

\* The most pressure that can be released in the minutes left, standing at
\* v with the valves of opened open: one walks to a closed valve, opens it
\* in a minute, and it then releases its flow every minute left.
RECURSIVE MostPressure(_, _, _, _)
MostPressure(ctx, minutes, v, opened) ==
    SetMax({0} \cup
        {ctx.valves[w[1] + 1].flow * (minutes - w[2] - 1)
            + MostPressure(ctx, minutes - w[2] - 1, w[1], SetBit(opened, w[1])) :
            w \in Targets(ctx, minutes, v, opened)})

\* C7: after solve, score[t][v][S] is the most pressure that can be released
\* with t + 1 minutes left standing at v with the valves of S open, and
\* part 1 is score[29]["AA"][empty].
C7_ScoreIsMostPressure ==
    day = "day16" /\ pc = "done" =>
        /\ \A t \in 0..(ScoreTimes - 1) : \A c \in DOMAIN result.ctx.score[t] :
              result.ctx.score[t][c] = MostPressure(result.ctx, t + 1, c[1], c[2])
        /\ result.part1 = result.ctx.score[Day16Part1Time][<<name_idx(result.ctx.valves, "AA"), 0>>]

----------------------------------------------------------------------------
(* day17: the falling rocks.                                               *)

\* A byte and a u32 are the sets of the positions of their bits that are 1.
RECURSIVE Pow2Of(_)
Pow2Of(i) == IF i = 0 THEN 1 ELSE 2 * Pow2Of(i - 1)

BitsOf(byte) == {i \in 0..7 : (byte \div Pow2Of(i)) % 2 = 1}

\* u32::from_be_bytes: the last byte is the least significant.
from_be_bytes(bytes) == UNION {{8 * (4 - k) + i : i \in BitsOf(bytes[k])} : k \in 1..4}

\* u32::to_le_bytes()[k], k from 0
le_byte(rock, k) == {b - 8 * k : b \in {b \in rock : 8 * k <= b /\ b < 8 * k + 8}}

rotate_left(rock) == {(b + 1) % 32 : b \in rock}
rotate_right(rock) == {(b + 31) % 32 : b \in rock}

leading_zeros(rock) == 31 - SetMax(rock)

EXTRA_ROWS == 7
LEFT_WALL == BitsOf(128)
ROCK_HORIZONTAL == from_be_bytes(<<0, 0, 0, 30>>)
ROCK_CROSS == from_be_bytes(<<0, 8, 28, 8>>)
ROCK_CORNER == from_be_bytes(<<0, 4, 4, 28>>)
ROCK_VERTICAL == from_be_bytes(<<16, 16, 16, 16>>)
ROCK_SQUARE == from_be_bytes(<<0, 0, 24, 24>>)
ALL_ROCKS == <<ROCK_HORIZONTAL, ROCK_CROSS, ROCK_CORNER, ROCK_VERTICAL, ROCK_SQUARE>>

\* Direction::try_from on the characters that are no whitespace
IsWhitespace(c) == c \in {" ", "\n", "\t", "\r"}

RECURSIVE ParseDirections(_, _, _)
ParseDirections(s, lo, hi) ==
    IF lo > hi THEN Ok(<<>>)
    ELSE IF lo = hi
    THEN (IF IsWhitespace(Char(s, lo)) THEN Ok(<<>>)
          ELSE IF Char(s, lo) \in {"<", ">"} THEN Ok(<<Char(s, lo)>>) ELSE Err)
    ELSE Try(ParseDirections(s, lo, (lo + hi) \div 2), LAMBDA l :
             Try(ParseDirections(s, (lo + hi) \div 2 + 1, hi), LAMBDA r : Ok(l \o r)))

\* Chamber::new
Chamber_new == [rows |-> [i \in 1..EXTRA_ROWS |-> LEFT_WALL], truncated_rows |-> 0]

\* Chamber::tower_height
tower_height(chamber) == chamber.truncated_rows + Len(chamber.rows) - 7

\* Chamber::start_height
start_height(rows) == Len(rows) + 3 - EXTRA_ROWS

\* Chamber::skip
skip(chamber, height) == [chamber EXCEPT !.truncated_rows = @ + height]

\* Chamber::fits: the four rows from height on (rows count from 0).
fits(rows, rock, height) == \A k \in 0..3 : le_byte(rock, k) \cap rows[height + k + 1] = {}

\* Chamber::push_rock
Shifted(rock, direction) == IF direction = "<" THEN rotate_left(rock) ELSE rotate_right(rock)

push_rock(rows, rock, height, direction) ==
    IF fits(rows, Shifted(rock, direction), height) THEN Shifted(rock, direction) ELSE rock

\* Chamber::ensure_capacity
rock_height(rock) == 4 - (leading_zeros(rock) \div 8)

ensure_capacity(rows, height, rock) ==
    IF height + rock_height(rock) >= Len(rows) - EXTRA_ROWS
    THEN rows \o [i \in 1..(height + rock_height(rock) - (Len(rows) - EXTRA_ROWS)) |-> LEFT_WALL]
    ELSE rows

\* The rows with the bytes of the rock or-ed into the rows from height on.
WithRock(rows, rock, height) ==
    [i \in 1..Len(rows) |->
        IF height < i /\ i <= height + 4 THEN rows[i] \cup le_byte(rock, i - 1 - height)
        ELSE rows[i]]

\* Chamber::insert_rock
insert_rock(rows, rock, height) == WithRock(ensure_capacity(rows, height, rock), rock, height)

\* The loop of Chamber::add_rock: the rock is pushed by the next direction
\* (the pos-th of the endless cycle, from 0) and falls until it rests.
RECURSIVE Fall(_, _, _, _, _)
RECURSIVE Pushed17(_, _, _, _, _)
Fall(rows, rock, height, directions, pos) ==
    Pushed17(rows, push_rock(rows, rock, height, directions[(pos % Len(directions)) + 1]),
             height, directions, pos + 1)

Pushed17(rows, rock, height, directions, pos) ==
    IF height = 0 \/ ~fits(rows, rock, height - 1)
    THEN [rock |-> rock, height |-> height, pos |-> pos]
    ELSE Fall(rows, rock, height - 1, directions, pos)

\* The configurations one row lower that the loop of
\* lowest_reachable_height_of_rock pushes for those of height.
Lower(rows, rocks, height) ==
    {r \in {push_rock(rows, rock, height, d) : rock \in rocks, d \in {"<", ">"}} :
        fits(rows, r, height - 1)}

\* Chamber::lowest_reachable_height_of_rock: the search explores every
\* configuration that the rock reaches, whatever the order of its stack; it
\* returns 0 when height 0 is reached, else the least height explored.
RECURSIVE LowestFrom(_, _, _)
LowestFrom(rows, rocks, height) ==
    IF height = 0 THEN 0
    ELSE IF Lower(rows, rocks, height) = {} THEN height
    ELSE LowestFrom(rows, Lower(rows, rocks, height), height - 1)

lowest_reachable_height_of_rock(rows, rock) == LowestFrom(rows, {rock}, start_height(rows))

SetMin(S) == CHOOSE m \in S : \A x \in S : m <= x

prune_height(rows) == SetMin({lowest_reachable_height_of_rock(rows, ALL_ROCKS[i]) : i \in 1..5})

\* Chamber::prune
Drained(chamber, height) ==
    IF height = 0 THEN chamber
    ELSE [rows |-> SubSeq(chamber.rows, height + 1, Len(chamber.rows)),
          truncated_rows |-> chamber.truncated_rows + height]

prune(chamber) == Drained(chamber, prune_height(chamber.rows))

\* One cycle more than fits in the rocks that remain.
possible_jumps_plus_one(remaining_n, n_diff) == remaining_n \div n_diff + 1

\* The jump of rock_fall on a hit of the cache.
possible_jumps(remaining_n, n_diff) == remaining_n \div n_diff

----------------------------------------------------------------------------
(* day17: rock_fall applied to jets and numbers of rocks.                  *)

MaxRocks == 16

\* Jets that make the tower repeat before MaxRocks rocks, jets that never
\* let it be pruned, no jets, and a character that is no direction.
Day17Texts ==
    {">><<<>", ">><<><\n", "<<><>>", "<>>><<", "<<><><<", "<", "><", ">>>", "<> <\n", "", "\n", "<v>"}

InitDay17 ==
    /\ day = "day17"
    /\ input \in [text : Day17Texts, total_rocks : 0..MaxRocks]
    /\ pc = "start"
    /\ stdout = ""
    /\ result = <<>>

\* rock_fall up to its loop
RockFallOf(directions) ==
    IF ~directions.ok THEN pc' = "failed" /\ UNCHANGED result
    ELSE /\ pc' = "loop"
         /\ result' = [directions |-> directions.val, rocks |-> 0, pos |-> 0,
                       chamber |-> Chamber_new, cache |-> {}, n |-> 0]

RockFallStart ==
    /\ day = "day17" /\ pc = "start"
    /\ RockFallOf(ParseDirections(input.text, 1, Len(input.text)))
    /\ UNCHANGED <<day, input, stdout>>

\* directions_inf.peek().unwrap() panics when there is no direction.
RockFallPanic ==
    /\ day = "day17" /\ pc = "loop"
    /\ result.n < input.total_rocks
    /\ result.directions = <<>>
    /\ pc' = "failed"
    /\ UNCHANGED <<day, input, stdout, result>>

\* n_key
Key(st) == <<st.rocks % 5, st.pos % Len(st.directions), st.chamber.rows>>

\* cache.get(&n_key)
Hits(st) == {e \in st.cache : e.key = Key(st)}

\* The branch of the loop that jumps: the cache holds the key and at least
\* one jump is possible.
Jumped(st, earlier, jumps) ==
    [st EXCEPT !.n = @ + jumps * (st.n - earlier.n),
               !.chamber = skip(st.chamber, jumps * (tower_height(st.chamber) - earlier.tower_height))]

CanJump(st, earlier) == possible_jumps(input.total_rocks - st.n, st.n - earlier.n) > 0

RockFallJump ==
    /\ day = "day17" /\ pc = "loop"
    /\ result.n < input.total_rocks
    /\ result.directions # <<>>
    /\ \E earlier \in Hits(result) :
          /\ CanJump(result, earlier)
          /\ result' = Jumped(result, earlier,
                              possible_jumps(input.total_rocks - result.n, result.n - earlier.n))
    /\ UNCHANGED <<day, input, pc, stdout>>

\* The rest of the loop: the state is put into the cache unless its key is
\* there, a rock is added and the chamber is pruned.
Cached(st) ==
    IF Hits(st) # {} THEN st.cache
    ELSE st.cache \cup {[key |-> Key(st), n |-> st.n, tower_height |-> tower_height(st.chamber)]}

\* Chamber::add_rock and Chamber::prune, rested being where the rock rests.
Rested(st) ==
    Fall(st.chamber.rows, ALL_ROCKS[(st.rocks % 5) + 1], start_height(st.chamber.rows),
         st.directions, st.pos)

add_rock(chamber, rested) ==
    [chamber EXCEPT !.rows = insert_rock(chamber.rows, rested.rock, rested.height)]

Added(st, rested) ==
    [st EXCEPT !.cache = Cached(st),
               !.chamber = prune(add_rock(st.chamber, rested)),
               !.rocks = @ + 1,
               !.pos = rested.pos,
               !.n = @ + 1]

RockFallRock ==
    /\ day = "day17" /\ pc = "loop"
    /\ result.n < input.total_rocks
    /\ result.directions # <<>>
    /\ \A earlier \in Hits(result) : ~CanJump(result, earlier)
    /\ result' = Added(result, Rested(result))
    /\ UNCHANGED <<day, input, pc, stdout>>

\* The loop is over: rock_fall returns the height of the tower.
RockFallReturn ==
    /\ day = "day17" /\ pc = "loop"
    /\ result.n >= input.total_rocks
    /\ pc' = "done"
    /\ UNCHANGED <<day, input, stdout, result>>

NextDay17 == RockFallStart \/ RockFallPanic \/ RockFallJump \/ RockFallRock \/ RockFallReturn

SpecDay17 == InitDay17 /\ [][NextDay17]_vars

\* The chamber after the first rocks of the cycle have fallen one at a time,
\* nothing pruned and nothing skipped: k rocks are still to fall.
RECURSIVE OneAtATime(_, _, _, _, _)
OneAtATime(chamber, directions, rocks, pos, k) ==
    IF k = 0 THEN chamber
    ELSE OneAtATime(
            add_rock(chamber, Fall(chamber.rows, ALL_ROCKS[(rocks % 5) + 1],
                                    start_height(chamber.rows), directions, pos)),
            directions, rocks + 1,
            Fall(chamber.rows, ALL_ROCKS[(rocks % 5) + 1],
                 start_height(chamber.rows), directions, pos).pos,
            k - 1)

\* C6: rock_fall(jets, N) returns the height that N rocks reach when they
\* fall one at a time with nothing pruned and nothing skipped, and its loop
\* ends with exactly N rocks accounted for.
C6_RockFallIsOneAtATime ==
    day = "day17" /\ pc = "done" =>
        /\ result.n = input.total_rocks
        /\ tower_height(result.chamber)
             = tower_height(OneAtATime(Chamber_new, result.directions, 0, 0, input.total_rocks))

\* A run that ended after a jump: more rocks are accounted for than have
\* fallen, and rows have been pruned.
C6_Witness ==
    /\ day = "day17" /\ pc = "done"
    /\ result.rocks < result.n
    /\ result.n = input.total_rocks
    /\ Len(result.chamber.rows) - EXTRA_ROWS < tower_height(result.chamber)


----------------------------------------------------------------------------
(* day14: the map of rock and the fill of sand.                            *)

\* str::split(pat) for a pattern of several characters.
RECURSIVE SplitOn(_, _)
SplitOn(s, sep) ==
    IF Find(s, sep) = 0 THEN <<s>>
    ELSE <<SubSeq(s, 1, Find(s, sep) - 1)>>
            \o SplitOn(SubSeq(s, Find(s, sep) + Len(sep), Len(s)), sep)

\* One part of a line, "x,y".
CoordOfPieces(sp) ==
    IF ~sp.ok THEN Err
    ELSE IF ~ParseUnsigned(sp.val[1]).ok \/ ~ParseUnsigned(sp.val[2]).ok THEN Err
    ELSE Ok(<<ParseUnsigned(sp.val[1]).val, ParseUnsigned(sp.val[2]).val>>)

ParseCoord(part) == CoordOfPieces(SplitOnce(part, ","))

\* The parts of one line, or the first error among them.
CoordsOfParts(parts) ==
    IF \E i \in 1..Len(parts) : ~ParseCoord(parts[i]).ok THEN Err
    ELSE Ok([i \in 1..Len(parts) |-> ParseCoord(parts[i]).val])

ParseRockLine(line) == CoordsOfParts(SplitOn(line, " -> "))

ParseRockLines(ls) ==
    IF \E i \in 1..Len(ls) : ~ParseRockLine(ls[i]).ok THEN Err
    ELSE Ok([i \in 1..Len(ls) |-> ParseRockLine(ls[i]).val])

all_coords(lines) == UNION {{lines[i][k] : k \in 1..Len(lines[i])} : i \in 1..Len(lines)}

\* dims
DimsOf(coords) == <<2 * SetMax({c[1] : c \in coords}), SetMax({c[2] : c \in coords}) + 2>>

\* Array2::get: the index is in the array.
InArea(area, n) == n[1] >= 0 /\ n[1] < area.dim[1] /\ n[2] >= 0 /\ n[2] < area.dim[2]

\* The cells made rock between s and t: the row of s from s.0 to t.0 and the
\* column of s from s.1 to t.1.
RockBetween(s, t) ==
    {<<x, s[2]>> : x \in Min(s[1], t[1])..Max(s[1], t[1])}
        \cup {<<s[1], y>> : y \in Min(s[2], t[2])..Max(s[2], t[2])}

RockOfLine(line) ==
    {line[1]} \cup UNION {RockBetween(line[i], line[i + 1]) : i \in 1..(Len(line) - 1)}

RockOfLines(lines) == UNION {RockOfLine(lines[i]) : i \in 1..Len(lines)}

\* The area after the lines are drawn; its cells are Air but for the sets
\* rock and sand.
AreaOf(lines) ==
    [dim |-> DimsOf(all_coords(lines)), rock |-> RockOfLines(lines), sand |-> {}]

\* Map::from_str: an error, a panic (a rock is written out of the array), or
\* the map.
Map_from_str(s) ==
    IF ~ParseRockLines(Lines(s)).ok THEN [ok |-> FALSE, panic |-> FALSE, area |-> <<>>]
    ELSE IF all_coords(ParseRockLines(Lines(s)).val) = {}
         THEN [ok |-> FALSE, panic |-> FALSE, area |-> <<>>]
    ELSE IF \E c \in RockOfLines(ParseRockLines(Lines(s)).val) :
                ~InArea(AreaOf(ParseRockLines(Lines(s)).val), c)
         THEN [ok |-> FALSE, panic |-> TRUE, area |-> <<>>]
    ELSE [ok |-> TRUE, panic |-> FALSE, area |-> AreaOf(ParseRockLines(Lines(s)).val)]

\* The start of the sand in part1 and part2.
Day14Start == <<500, 0>>

Open(p) == [kind |-> "Open", at |-> p]
Close(p) == [kind |-> "Close", at |-> p]

\* self.area.get(n) is Some(Space::Air); n.0 is -1 where x - 1 wrapped around.
IsAir(area, n) == InArea(area, n) /\ n \notin area.rock /\ n \notin area.sand

\* The neighbours with the two diagonals exchanged.
SandNeighboursLeftFirst(p) == <<<<p[1] - 1, p[2] + 1>>, <<p[1] + 1, p[2] + 1>>, <<p[1], p[2] + 1>>>>

\* The neighbours of (x, y) in the order they are looked at.
SandNeighbours(p) == <<<<p[1] + 1, p[2] + 1>>, <<p[1] - 1, p[2] + 1>>, <<p[1], p[2] + 1>>>>

\* The neighbours that are pushed, in order.
RECURSIVE OpenNeighbours(_, _, _)
OpenNeighbours(area, ns, i) ==
    IF i > Len(ns) THEN <<>>
    ELSE (IF IsAir(area, ns[i]) THEN <<Open(ns[i])>> ELSE <<>>)
            \o OpenNeighbours(area, ns, i + 1)

\* Explore::Open((x, y)) when the loop goes on
Opened(area, stack, p) ==
    SubSeq(stack, 1, Len(stack) - 1) \o <<Close(p)>> \o OpenNeighbours(area, SandNeighbours(p), 1)

\* Explore::Close(s)
Closed(area, s) == [area EXCEPT !.sand = @ \cup {s}, !.rock = @ \ {s}]

\* map.area.iter().filter(Sand).count()
SandCount(area) == Cardinality(area.sand)

----------------------------------------------------------------------------
(* day14: part1 and part2 applied to scans of rock.                        *)

\* The example of the puzzle, scans whose sand ends on a heap, flows off a
\* ledge or falls at once, scans too narrow for the start of the sand, and
\* texts that are no scan.
Day14Texts ==
    {"498,4 -> 498,6 -> 496,6\n503,4 -> 502,4 -> 502,9 -> 494,9\n",
     "498,2 -> 502,2\n", "499,3 -> 501,3\n", "500,2 -> 501,2 -> 501,1\n",
     "497,1 -> 497,3 -> 503,3 -> 503,1\n", "500,1\n", "502,3\n499,2\n",
     "251,1\n", "252,2 -> 252,1\n", "300,0\n", "10,1 -> 12,1\n", "250,4\n", "0,0\n",
     "", "\n", "500\n", "x,1 -> 2,2\n", "498,2 - 502,2\n"}

InitDay14 ==
    /\ day = "day14"
    /\ input \in [text : Day14Texts, has_abyss : BOOLEAN, build : Builds]
    /\ pc = "start"
    /\ stdout = ""
    /\ result = <<>>

\* input.parse()?, then fill_sand up to its loop
Day14Parsed(map) ==
    IF map.panic THEN pc' = "panicked" /\ UNCHANGED result
    ELSE IF ~map.ok THEN pc' = "failed" /\ UNCHANGED result
    ELSE /\ pc' = "fill"
         /\ result' = [area |-> map.area, explore_stack |-> <<Open(Day14Start)>>, count |-> 0]

Day14Parse ==
    /\ day = "day14" /\ pc = "start"
    /\ Day14Parsed(Map_from_str(input.text))
    /\ UNCHANGED <<day, input, stdout>>

\* explore_stack.pop()
Top(stack) == stack[Len(stack)]

\* has_abyss && y + 1 >= bottom
AtBottom(area, p) == input.has_abyss /\ p[2] + 1 >= area.dim[2]

\* Explore::Open with the break: the loop is left.
FillBreak ==
    /\ day = "day14" /\ pc = "fill"
    /\ result.explore_stack # <<>>
    /\ Top(result.explore_stack).kind = "Open"
    /\ AtBottom(result.area, Top(result.explore_stack).at)
    /\ pc' = "count"
    /\ UNCHANGED <<day, input, stdout, result>>

\* Explore::Open without the break.  x - 1 overflows at x = 0: the debug
\* build panics, the release build wraps to an index that is in no array.
FillOpen ==
    /\ day = "day14" /\ pc = "fill"
    /\ result.explore_stack # <<>>
    /\ Top(result.explore_stack).kind = "Open"
    /\ ~AtBottom(result.area, Top(result.explore_stack).at)
    /\ IF Top(result.explore_stack).at[1] = 0 /\ input.build = "debug"
       THEN pc' = "panicked" /\ UNCHANGED result
       ELSE /\ pc' = pc
            /\ result' = [result EXCEPT !.explore_stack =
                              Opened(result.area, @, Top(result.explore_stack).at)]
    /\ UNCHANGED <<day, input, stdout>>

\* Explore::Close(s): self.area[s] = Space::Sand panics when s is not in the
\* array.
FillClose ==
    /\ day = "day14" /\ pc = "fill"
    /\ result.explore_stack # <<>>
    /\ Top(result.explore_stack).kind = "Close"
    /\ IF ~InArea(result.area, Top(result.explore_stack).at)
       THEN pc' = "panicked" /\ UNCHANGED result
       ELSE /\ pc' = pc
            /\ result' = [result EXCEPT
                              !.area = Closed(@, Top(result.explore_stack).at),
                              !.explore_stack = SubSeq(@, 1, Len(@) - 1)]
    /\ UNCHANGED <<day, input, stdout>>

\* The stack is empty: the loop is over.
FillEnd ==
    /\ day = "day14" /\ pc = "fill"
    /\ result.explore_stack = <<>>
    /\ pc' = "count"
    /\ UNCHANGED <<day, input, stdout, result>>

\* The count of the sand, returned by part1 and part2.
Day14Count ==
    /\ day = "day14" /\ pc = "count"
    /\ result' = [result EXCEPT !.count = SandCount(result.area)]
    /\ pc' = "done"
    /\ UNCHANGED <<day, input, stdout>>

NextDay14 == Day14Parse \/ FillBreak \/ FillOpen \/ FillClose \/ FillEnd \/ Day14Count

SpecDay14 == InitDay14 /\ [][NextDay14]_vars

\* The simulation of the puzzle, unit by unit.  A unit at p falls down, else
\* down and left, else down and right, and rests where it cannot move; with
\* no floor it is lost once it is below the lowest rock.  floor is the row
\* of the floor, -1 when there is none.
Free(blocked, floor, n) == n \notin blocked /\ n[2] # floor

RECURSIVE Rest(_, _, _, _)
Rest(blocked, p, lowest, floor) ==
    IF floor < 0 /\ p[2] > lowest THEN Err
    ELSE IF Free(blocked, floor, <<p[1], p[2] + 1>>)
         THEN Rest(blocked, <<p[1], p[2] + 1>>, lowest, floor)
    ELSE IF Free(blocked, floor, <<p[1] - 1, p[2] + 1>>)
         THEN Rest(blocked, <<p[1] - 1, p[2] + 1>>, lowest, floor)
    ELSE IF Free(blocked, floor, <<p[1] + 1, p[2] + 1>>)
         THEN Rest(blocked, <<p[1] + 1, p[2] + 1>>, lowest, floor)
    ELSE Ok(p)

\* The sand at rest when a unit is lost or the start is blocked.
PouredNext(sand, r) ==
    IF ~r.ok THEN [sand |-> sand, more |-> FALSE]
    ELSE [sand |-> sand \cup {r.val}, more |-> r.val # Day14Start]

RECURSIVE Poured(_, _, _, _)
Poured(rocks, sand, lowest, floor) ==
    IF PouredNext(sand, Rest(rocks \cup sand, Day14Start, lowest, floor)).more
    THEN Poured(rocks, PouredNext(sand, Rest(rocks \cup sand, Day14Start, lowest, floor)).sand,
                lowest, floor)
    ELSE PouredNext(sand, Rest(rocks \cup sand, Day14Start, lowest, floor)).sand

\* The rock of a scan and its lowest row, read off the text.
ScanOf(text) == ParseRockLines(Lines(text)).val

LowestRock(text) == SetMax({c[2] : c \in RockOfLines(ScanOf(text))})

SandIntoAbyss(text) == Poured(RockOfLines(ScanOf(text)), {}, LowestRock(text), -1)

SandOnFloor(text) ==
    Poured(RockOfLines(ScanOf(text)), {}, LowestRock(text), LowestRock(text) + 2)

C12_Part2OnFloor ==
    day = "day14" /\ ~input.has_abyss =>
        /\ pc # "panicked"
        /\ pc = "done" => result.count = Cardinality(SandOnFloor(input.text))

----------------------------------------------------------------------------
(* day08: the heights of the trees and their visibility.                   *)

\* char::to_digit(10) of every character of the lines, line after line:
\* trees_vec, or the first error.
TreesOfLine(line) == [i \in 1..Len(line) |-> DigitVal(Char(line, i))]

RECURSIVE TreesOfLines(_, _)
TreesOfLines(ls, i) ==
    IF i > Len(ls) THEN <<>> ELSE TreesOfLine(ls[i]) \o TreesOfLines(ls, i + 1)

AllTreeDigits(ls) ==
    \A i \in 1..Len(ls) : \A k \in 1..Len(ls[i]) : IsDigit(Char(ls[i], k))

\* Array2::from_shape_vec((max_x, max_y), trees_vec): the vector is laid out
\* in row-major order, element (i, j) is trees_vec[i * max_y + j]; an error
\* when the vector has not max_x * max_y elements.
from_shape_vec(max_x, max_y, trees_vec) ==
    IF Len(trees_vec) # max_x * max_y THEN Err
    ELSE Ok([shape |-> <<max_x, max_y>>,
             at |-> [p \in (0..(max_x - 1)) \X (0..(max_y - 1)) |->
                        trees_vec[p[1] * max_y + p[2] + 1]]])

\* parse_heights past the unwrap of the first line: max_x is the length of
\* the first line, max_y the number of lines.
parse_heights(ls) ==
    IF ~AllTreeDigits(ls) THEN Err
    ELSE from_shape_vec(Len(ls[1]), Len(ls), TreesOfLines(ls, 1))

\* The index in the array of element i of lane axis_idx of an axis.
LaneIndex(axis, axis_idx, i) == IF axis = 0 THEN <<axis_idx, i>> ELSE <<i, axis_idx>>

\* sweep_axis after its first element: r[k], ... are still to come.
RECURSIVE SweepFrom(_, _, _, _, _, _)
SweepFrom(heights, axis, axis_idx, r, k, max_previous) ==
    IF k > Len(r) THEN {}
    ELSE IF heights.at[LaneIndex(axis, axis_idx, r[k])] > max_previous
         THEN {LaneIndex(axis, axis_idx, r[k])}
                \cup SweepFrom(heights, axis, axis_idx, r, k + 1,
                               heights.at[LaneIndex(axis, axis_idx, r[k])])
    ELSE SweepFrom(heights, axis, axis_idx, r, k + 1, max_previous)

\* sweep_axis: the elements made visible, r not empty.
sweep_axis(heights, axis, axis_idx, r) ==
    {LaneIndex(axis, axis_idx, r[1])}
        \cup SweepFrom(heights, axis, axis_idx, r, 2,
                       heights.at[LaneIndex(axis, axis_idx, r[1])])

\* 0..axis_len and its reverse
Forward(axis_len) == [k \in 1..axis_len |-> k - 1]
Backward(axis_len) == [k \in 1..axis_len |-> axis_len - k]

\* The length of the lanes of heights.axis_iter(axis), and their number.
LaneLen(heights, axis) == heights.shape[2 - axis]
LaneCount(heights, axis) == heights.shape[axis + 1]

\* One turn of the inner loop of calculate_visibility.
SweepLane(heights, axis, axis_idx) ==
    sweep_axis(heights, axis, axis_idx, Forward(LaneLen(heights, axis)))
        \cup sweep_axis(heights, axis, axis_idx, Backward(LaneLen(heights, axis)))

----------------------------------------------------------------------------
(* day08: part1 applied to grids of trees.                                 *)

MaxRows == 3

\* Rows of trees of one to four columns.
Day08Rows ==
    <<{"0", "5", "9"}, {"12", "21", "33"}, {"121", "303", "555", "132"},
      {"1111", "1211", "1121", "3113", "2552"}>>

Day08Example == "30373\n25512\n65332\n33549\n35390\n"

\* Rectangular grids, the example, and texts that are no grid of digits.
Day08Texts ==
    UNION {{Unlines(ls) : ls \in UNION {[1..n -> Day08Rows[w]] : n \in 1..MaxRows}} :
              w \in 1..Len(Day08Rows)}
        \cup {Day08Example, "", "\n", "12\n3\n", "1a\n22\n"}

InitDay08 ==
    /\ day = "day08"
    /\ input \in Day08Texts
    /\ pc = "start"
    /\ stdout = ""
    /\ result = <<>>

\* part1 up to the loops of calculate_visibility; input.lines().next()
\* .unwrap() panics when there is no line.
Day08Parsed(forest) ==
    IF ~forest.ok THEN pc' = "failed" /\ UNCHANGED result
    ELSE /\ pc' = "sweep"
         /\ result' = [heights |-> forest.val, visibility |-> {}, axis |-> 0, axis_idx |-> 0,
                       count |-> 0]

Day08Parse ==
    /\ day = "day08" /\ pc = "start"
    /\ IF Lines(input) = <<>> THEN pc' = "panicked" /\ UNCHANGED result
       ELSE Day08Parsed(parse_heights(Lines(input)))
    /\ UNCHANGED <<day, input, stdout>>

\* One lane of an axis is swept from both ends; r.next().unwrap() panics on
\* a lane without elements.
Day08Sweep ==
    /\ day = "day08" /\ pc = "sweep"
    /\ result.axis <= 1
    /\ result.axis_idx < LaneCount(result.heights, result.axis)
    /\ IF LaneLen(result.heights, result.axis) = 0
       THEN pc' = "panicked" /\ UNCHANGED result
       ELSE /\ pc' = pc
            /\ result' = [result EXCEPT
                  !.visibility = @ \cup SweepLane(result.heights, result.axis, result.axis_idx),
                  !.axis_idx = @ + 1]
    /\ UNCHANGED <<day, input, stdout>>

\* The lanes of an axis are done: on to the next axis.
Day08NextAxis ==
    /\ day = "day08" /\ pc = "sweep"
    /\ result.axis <= 1
    /\ result.axis_idx >= LaneCount(result.heights, result.axis)
    /\ result' = [result EXCEPT !.axis = @ + 1, !.axis_idx = 0]
    /\ UNCHANGED <<day, input, pc, stdout>>

\* visibility.iter().filter(visible).count()
Day08Count ==
    /\ day = "day08" /\ pc = "sweep"
    /\ result.axis > 1
    /\ result' = [result EXCEPT !.count = Cardinality(result.visibility)]
    /\ pc' = "done"
    /\ UNCHANGED <<day, input, stdout>>

NextDay08 == Day08Parse \/ Day08Sweep \/ Day08NextAxis \/ Day08Count

SpecDay08 == InitDay08 /\ [][NextDay08]_vars

\* The trees of the input: the tree of row r and column c of the text, and
\* those visible from outside the grid.
TreeAt(ls, r, c) == DigitVal(Char(ls[r], c))

VisibleTree(ls, r, c) ==
    \/ \A k \in 1..(c - 1) : TreeAt(ls, r, k) < TreeAt(ls, r, c)
    \/ \A k \in (c + 1)..Len(ls[r]) : TreeAt(ls, r, k) < TreeAt(ls, r, c)
    \/ \A k \in 1..(r - 1) : TreeAt(ls, k, c) < TreeAt(ls, r, c)
    \/ \A k \in (r + 1)..Len(ls) : TreeAt(ls, k, c) < TreeAt(ls, r, c)

VisibleTrees(ls) ==
    {p \in (1..Len(ls)) \X (1..Len(ls[1])) : VisibleTree(ls, p[1], p[2])}

IsGrid(ls) ==
    /\ ls # <<>> /\ Len(ls[1]) > 0
    /\ \A i \in 1..Len(ls) : Len(ls[i]) = Len(ls[1])
    /\ AllTreeDigits(ls)

\* C13: for every rectangular grid of digits, square or not, part1 returns
\* the number of trees visible from outside the grid.
C13_Part1CountsVisible ==
    day = "day08" /\ IsGrid(Lines(input)) =>
        /\ pc \notin {"failed", "panicked"}
        /\ pc = "done" => result.count = Cardinality(VisibleTrees(Lines(input)))

----------------------------------------------------------------------------
(* day20: the doubly linked list and its mixing.                           *)

\* a % b of Rust for b > 0: the remainder has the sign of a.
Rem(a, b) == IF a >= 0 THEN a % b ELSE 0 - ((0 - a) % b)

\* The values of the lines, or the first error.
ParseValues(ls) ==
    IF \E i \in 1..Len(ls) : ~ParseSigned(ls[i]).ok THEN Err
    ELSE Ok([i \in 1..Len(ls) |-> ParseSigned(ls[i]).val])

\* The entries of from_str: entry pos is linked to its neighbours in the
\* input, the last to the first.
EntriesOf(values) ==
    [pos \in 0..(Len(values) - 1) |->
        [value |-> values[pos + 1],
         prev |-> IF pos > 0 THEN pos - 1 ELSE Len(values) - 1,
         next |-> IF pos < Len(values) - 1 THEN pos + 1 ELSE 0]]

ZeroIndices(values) == {i \in 0..(Len(values) - 1) : values[i + 1] = 0}

\* exactly_one() of the indices of the zeros
ListOfValues(values) ==
    IF Cardinality(ZeroIndices(values)) # 1 THEN Err
    ELSE Ok([zero_idx |-> CHOOSE i \in ZeroIndices(values) : TRUE,
             entries |-> EntriesOf(values)])

List_from_str(s) == Try(ParseValues(Lines(s)), ListOfValues)

\* The link that remove leaves alone.
remove_next_only(entries, i) == [entries EXCEPT ![entries[i].prev].next = entries[i].next]

remove(entries, i) == [entries EXCEPT ![entries[i].next].prev = entries[i].prev, ![entries[i].prev].next = entries[i].next]

\* The loops of seek: steps times along next, or along prev.
RECURSIVE Forth(_, _, _)
Forth(entries, i, steps) ==
    IF steps = 0 THEN i ELSE Forth(entries, entries[i].next, steps - 1)

RECURSIVE Back(_, _, _)
Back(entries, i, steps) ==
    IF steps = 0 THEN i ELSE Back(entries, entries[i].prev, steps - 1)

\* A backward seek that stops one entry early.
BackSteps_short(amount) == 0 - amount

\* The steps along prev for a negative amount: amount -= 1, then one step
\* until amount is 0.
BackSteps(amount) == 0 - amount + 1

\* seek after amount %= ...
Sought(entries, i, amount) ==
    IF amount > 0 THEN Forth(entries, i, amount)
    ELSE IF amount < 0 THEN Back(entries, i, BackSteps(amount))
    ELSE i

\* The divisor of seek.
SeekLen(entries, pretend_removed) ==
    IF pretend_removed THEN Cardinality(DOMAIN entries) - 1 ELSE Cardinality(DOMAIN entries)

seek(entries, i, amount, pretend_removed) ==
    Sought(entries, i, Rem(amount, SeekLen(entries, pretend_removed)))

insert(entries, i, new_prev) ==
    [entries EXCEPT ![new_prev].next = i,
                    ![entries[new_prev].next].prev = i,
                    ![i].next = entries[new_prev].next,
                    ![i].prev = new_prev]

\* One turn of the loop of mix.
Moved(entries, i, new_prev) ==
    IF new_prev = i THEN entries ELSE insert(remove(entries, i), i, new_prev)

MixEntry(entries, i) == Moved(entries, i, seek(entries, i, entries[i].value, TRUE))

\* One term of score_coordinates.
CoordinateOf(list, a) == list.entries[seek(list.entries, list.zero_idx, a, FALSE)].value

score_coordinates(list) ==
    CoordinateOf(list, 1000) + CoordinateOf(list, 2000) + CoordinateOf(list, 3000)

----------------------------------------------------------------------------
(* day20 as a state machine: from_str, then mix one entry at a time.  part2 *)
(* mixes the list again and again; the model may do so up to MaxMixes       *)
(* times before it scores, and draws the values, among them values beyond   *)
(* the length of the list, from Day20Values.                                *)

MaxEntries == 4
MaxMixes == 2

Day20Values == {"0", "1", "-2", "3", "4", "-7"}

Day20Example == "1\n2\n-3\n3\n-2\n0\n4\n"

Day20Texts ==
    {Unlines(ls) : ls \in UNION {[1..n -> Day20Values] : n \in 0..MaxEntries}}
        \cup {Day20Example, "1\nx\n0\n", "0"}

InitDay20 ==
    /\ day = "day20"
    /\ input \in Day20Texts
    /\ pc = "start"
    /\ stdout = ""
    /\ result = <<>>

\* input.parse()?; "before" and "last" remember the links before the latest
\* turn of the loop of mix and the entry of that turn, "parsed" the list as
\* from_str made it.
Day20Parsed(list) ==
    IF ~list.ok THEN pc' = "failed" /\ UNCHANGED result
    ELSE /\ pc' = "mix"
         /\ result' = [list |-> list.val, i |-> 0, mixes |-> 0, score |-> 0,
                       parsed |-> list.val, before |-> list.val.entries, last |-> 0 - 1]

Day20Parse ==
    /\ day = "day20" /\ pc = "start"
    /\ Day20Parsed(List_from_str(input))
    /\ UNCHANGED <<day, input, stdout>>

Day20Len == Cardinality(DOMAIN result.list.entries)

\* One turn of the loop of mix; the remainder by len - 1 panics for a list
\* of one entry.
Day20Mix ==
    /\ day = "day20" /\ pc = "mix"
    /\ result.i < Day20Len
    /\ IF SeekLen(result.list.entries, TRUE) = 0
       THEN pc' = "panicked" /\ UNCHANGED result
       ELSE /\ pc' = pc
            /\ result' = [result EXCEPT
                  !.list.entries = MixEntry(result.list.entries, result.i),
                  !.before = result.list.entries,
                  !.last = result.i,
                  !.i = @ + 1]
    /\ UNCHANGED <<day, input, stdout>>

\* The loop of mix is over and mix is called again.
Day20Again ==
    /\ day = "day20" /\ pc = "mix"
    /\ result.i = Day20Len
    /\ result.mixes + 1 < MaxMixes
    /\ result' = [result EXCEPT !.i = 0, !.mixes = @ + 1]
    /\ UNCHANGED <<day, input, pc, stdout>>

\* The loop of mix is over and the coordinates are summed.
Day20Score ==
    /\ day = "day20" /\ pc = "mix"
    /\ result.i = Day20Len
    /\ result' = [result EXCEPT !.mixes = @ + 1, !.score = score_coordinates(result.list)]
    /\ pc' = "done"
    /\ UNCHANGED <<day, input, stdout>>

NextDay20 == Day20Parse \/ Day20Mix \/ Day20Again \/ Day20Score

SpecDay20 == InitDay20 /\ [][NextDay20]_vars

(* The reference: the circle as a sequence of entries, an entry taken out   *)
(* and put back at (position + value) mod (n - 1).                          *)

PositionIn(seq, e) == CHOOSE k \in 1..Len(seq) : seq[k] = e

WithoutAt(seq, k) == SubSeq(seq, 1, k - 1) \o SubSeq(seq, k + 1, Len(seq))

InsertedAt(seq, at, e) == SubSeq(seq, 1, at) \o <<e>> \o SubSeq(seq, at + 1, Len(seq))

Reinserted(seq, e, value) ==
    InsertedAt(WithoutAt(seq, PositionIn(seq, e)),
               (PositionIn(seq, e) - 1 + value) % (Len(seq) - 1), e)

\* The sequence after the first "turns" turns, entry after entry in the
\* order of the input, round after round.
RECURSIVE Reference(_, _)
Reference(entries, turns) ==
    IF turns = 0 THEN [k \in 1..Cardinality(DOMAIN entries) |-> k - 1]
    ELSE Reinserted(Reference(entries, turns - 1),
                    (turns - 1) % Cardinality(DOMAIN entries),
                    entries[(turns - 1) % Cardinality(DOMAIN entries)].value)

\* The next links go round the sequence.
SameCircle(entries, seq) ==
    \A k \in 1..Len(seq) : entries[seq[k]].next = seq[(k % Len(seq)) + 1]

ReferenceCoordinate(entries, seq, zero, a) ==
    entries[seq[((PositionIn(seq, zero) - 1 + a) % Len(seq)) + 1]].value

ReferenceScore(entries, seq, zero) ==
    ReferenceCoordinate(entries, seq, zero, 1000)
        + ReferenceCoordinate(entries, seq, zero, 2000)
        + ReferenceCoordinate(entries, seq, zero, 3000)

\* The turns of the loop of mix made so far.
Day20Turns ==
    IF pc = "done" THEN result.mixes * Day20Len ELSE result.mixes * Day20Len + result.i

Day20Running == day = "day20" /\ pc \in {"mix", "done"}

\* C14: after every turn of mix the next links give the circular order of
\* the reference that takes the entry out of a sequence and puts it back at
\* (position + value) mod (n - 1), the entries being visited in the order of
\* the input; and the score is the sum of the values 1000, 2000 and 3000
\* places after the 0 in that order.
C14_MixIsReference ==
    Day20Running =>
        /\ Day20Len > 1 =>
              SameCircle(result.list.entries, Reference(result.parsed.entries, Day20Turns))
        /\ pc = "done" =>
              result.score = ReferenceScore(result.parsed.entries,
                                 Reference(result.parsed.entries, Day20Turns),
                                 result.parsed.zero_idx)

\* The example has been mixed once, entries have gone forward and backward,
\* and its coordinates 4, -3 and 2 are summed.
C14_Witness ==
    /\ day = "day20" /\ pc = "done"
    /\ input = Day20Example
    /\ result.mixes = 1
    /\ result.list.entries # result.parsed.entries
    /\ result.score = 3

\* The entries reached from entry 0 along next.
RECURSIVE CycleFrom(_, _, _)
CycleFrom(entries, i, steps) ==
    IF steps = 0 THEN {} ELSE {i} \cup CycleFrom(entries, entries[i].next, steps - 1)

LinksInverse(entries) ==
    \A i \in DOMAIN entries :
        /\ entries[i].next \in DOMAIN entries
        /\ entries[i].prev \in DOMAIN entries
        /\ entries[entries[i].next].prev = i
        /\ entries[entries[i].prev].next = i

SingleCycle(entries) ==
    CycleFrom(entries, 0, Cardinality(DOMAIN entries)) = DOMAIN entries

ValuesOf(entries) == [i \in DOMAIN entries |-> entries[i].value]

\* C17: after every turn of mix, in the first mix and in the later ones, prev
\* and next are inverse to each other and next runs through all entries in
\* one cycle; the values and zero_idx are those of from_str; and a turn whose
\* shift, reduced by len - 1, is 0 changes no link.
C17_LinksKept ==
    Day20Running =>
        /\ LinksInverse(result.list.entries)
        /\ SingleCycle(result.list.entries)
        /\ ValuesOf(result.list.entries) = ValuesOf(result.parsed.entries)
        /\ result.list.zero_idx = result.parsed.zero_idx
        /\ DOMAIN result.list.entries = DOMAIN result.parsed.entries
        /\ (result.last >= 0
              /\ Rem(result.list.entries[result.last].value, Day20Len - 1) = 0)
           => result.list.entries = result.before

\* In a second mix a turn has left its entry, whose value 3 is the length
\* less one, in place after earlier turns have moved entries.
C17_Witness ==
    /\ day = "day20" /\ pc = "mix"
    /\ result.mixes = 1
    /\ result.last >= 0
    /\ result.list.entries[result.last].value = 3
    /\ Day20Len = 4
    /\ result.list.entries = result.before
    /\ result.list.entries # result.parsed.entries

----------------------------------------------------------------------------
(* day13: packets, their order, and the positions of the dividers.         *)

\* Packet::Literal and Packet::List, as records of one shape.
Literal(n) == [lit |-> TRUE, val |-> n, items |-> <<>>]
List(items) == [lit |-> FALSE, val |-> 0, items |-> items]

\* u64::cmp
CmpInt(a, b) == IF a < b THEN "Less" ELSE IF a > b THEN "Greater" ELSE "Equal"

\* A packet as a slice: the items of a list, a literal alone.
SliceOf(p) == IF p.lit THEN <<p>> ELSE p.items

\* Ord for Packet
RECURSIVE cmp(_, _)
RECURSIVE compare_slices(_, _)
RECURSIVE CompareTails(_, _, _)
cmp(p, q) ==
    IF p.lit /\ q.lit THEN CmpInt(p.val, q.val)
    ELSE compare_slices(SliceOf(p), SliceOf(q))

compare_slices(left, right) ==
    IF left = <<>> /\ right = <<>> THEN "Equal"
    ELSE IF left = <<>> THEN "Less"
    ELSE IF right = <<>> THEN "Greater"
    ELSE CompareTails(cmp(Head(left), Head(right)), left, right)

CompareTails(o, left, right) ==
    IF o = "Equal" THEN compare_slices(Tail(left), Tail(right)) ELSE o

\* The outcome of parse_list: the index after the list and its items.
Parsed(end, items) == [ok |-> TRUE, end |-> end, items |-> items]
NotParsed == [ok |-> FALSE, end |-> 0, items |-> <<>>]

\* The items after a "]" or ",": the characters since start, if any, are
\* one more literal.
WithLiteral(s, start, i, items) ==
    IF start = i THEN Ok(items)
    ELSE IF ParseUnsigned(SubSeq(s, start + 1, i)).ok
         THEN Ok(Append(items, Literal(ParseUnsigned(SubSeq(s, start + 1, i)).val)))
    ELSE Err

\* The loop of parse_list over the characters from i on, indices from 0.
RECURSIVE ParseListLoop(_, _, _, _)
RECURSIVE AfterSublist(_, _, _)
RECURSIVE AfterLiteral(_, _, _)
ParseListLoop(s, start, i, items) ==
    IF i >= Len(s) THEN Parsed(i, items)
    ELSE IF Char(s, i + 1) = "[" THEN AfterSublist(s, items, ParseListLoop(s, i + 1, i + 1, <<>>))
    ELSE IF Char(s, i + 1) \in {"]", ","} THEN AfterLiteral(s, i, WithLiteral(s, start, i, items))
    ELSE ParseListLoop(s, start, i + 1, items)

AfterSublist(s, items, sub) ==
    IF ~sub.ok THEN NotParsed
    ELSE ParseListLoop(s, sub.end, sub.end, Append(items, List(sub.items)))

AfterLiteral(s, i, items) ==
    IF ~items.ok THEN NotParsed
    ELSE IF Char(s, i + 1) = "]" THEN Parsed(i + 1, items.val)
    ELSE ParseListLoop(s, i + 1, i + 1, items.val)

parse_list(s, start) == ParseListLoop(s, start, start, <<>>)

ListOfParsed(r) == IF r.ok THEN Ok(List(r.items)) ELSE Err

\* Packet::from_str
Packet_from_str(s) ==
    IF s = "" THEN Err
    ELSE IF ~(Char(s, 1) = "[" /\ Char(s, Len(s)) = "]") THEN MapOk(ParseUnsigned(s), Literal)
    ELSE ListOfParsed(parse_list(s, 1))

NonEmptyLines(ls) == SelectSeq(ls, LAMBDA l : l # "")

PacketsOf(ls) ==
    IF \E k \in 1..Len(ls) : ~Packet_from_str(ls[k]).ok THEN Err
    ELSE Ok([k \in 1..Len(ls) |-> Packet_from_str(ls[k]).val])

get_packets(text) == PacketsOf(NonEmptyLines(Lines(text)))

divider_1 == List(<<List(<<Literal(2)>>)>>)
divider_2 == List(<<List(<<Literal(6)>>)>>)

\* packets.iter().filter(|p| p < divider).count()
CountLess(packets, divider) ==
    Cardinality({k \in 1..Len(packets) : cmp(packets[k], divider) = "Less"})

\* The position of the second divider without the first divider counted.
d2_pos_uncounted(packets) == CountLess(packets, divider_2) + 1

d1_pos(packets) == CountLess(packets, divider_1) + 1
d2_pos(packets) == CountLess(packets, divider_2) + 2

----------------------------------------------------------------------------
(* day13 part2 as a state machine.                                         *)

MaxPackets == 3

Day13Lines == {"", "[]", "[[2]]", "[3]", "[1,[2,3]]", "[[6],1]", "[10]", "7", "[[[5]]]"}

Day13Example ==
    "[1,1,3,1,1]\n[1,1,5,1,1]\n\n[[1],[2,3,4]]\n[[1],4]\n\n[9]\n[[8,7,6]]\n\n"
        \o "[[4,4],4,4]\n[[4,4],4,4,4]\n\n[7,7,7,7]\n[7,7,7]\n\n[]\n[3]\n\n"
        \o "[[[]]]\n[[]]\n\n[1,[2,[3,[4,[5,6,7]]]],8,9]\n[1,[2,[3,[4,[5,6,0]]]],8,9]\n"

Day13Texts ==
    {Unlines(ls) : ls \in UNION {[1..n -> Day13Lines] : n \in 0..MaxPackets}}
        \cup {Day13Example, "[1,x]\n", "[3\n", "6\n[6]\n[[6]]\n[5]\n"}

InitDay13 ==
    /\ day = "day13"
    /\ input \in Day13Texts
    /\ pc = "start"
    /\ stdout = ""
    /\ result = <<>>

Day13Parsed(packets) ==
    IF ~packets.ok THEN pc' = "failed" /\ UNCHANGED result
    ELSE /\ pc' = "count"
         /\ result' = [packets |-> packets.val, d1_pos |-> 0, d2_pos |-> 0, product |-> 0]

\* get_packets(input)?
Day13Parse ==
    /\ day = "day13" /\ pc = "start"
    /\ Day13Parsed(get_packets(input))
    /\ UNCHANGED <<day, input, stdout>>

\* The two counts.
Day13Count ==
    /\ day = "day13" /\ pc = "count"
    /\ result' = [result EXCEPT !.d1_pos = d1_pos(result.packets),
                                !.d2_pos = d2_pos(result.packets)]
    /\ pc' = "counted"
    /\ UNCHANGED <<day, input, stdout>>

\* Ok(d1_pos * d2_pos)
Day13Product ==
    /\ day = "day13" /\ pc = "counted"
    /\ result' = [result EXCEPT !.product = result.d1_pos * result.d2_pos]
    /\ pc' = "done"
    /\ UNCHANGED <<day, input, stdout>>

NextDay13 == Day13Parse \/ Day13Count \/ Day13Product

SpecDay13 == InitDay13 /\ [][NextDay13]_vars

(* The reference: all packets and the two dividers, sorted.                *)

RECURSIVE InsertSorted(_, _)
InsertSorted(sorted, p) ==
    IF sorted = <<>> THEN <<p>>
    ELSE IF cmp(p, Head(sorted)) = "Less" THEN <<p>> \o sorted
    ELSE <<Head(sorted)>> \o InsertSorted(Tail(sorted), p)

RECURSIVE SortPackets(_)
SortPackets(q) == IF q = <<>> THEN <<>> ELSE InsertSorted(SortPackets(Tail(q)), Head(q))

IsSorted(q) == \A k \in 1..(Len(q) - 1) : cmp(q[k], q[k + 1]) # "Greater"

WithDividers(packets) == packets \o <<divider_1, divider_2>>

\* The 1-based position in the sorted list.
SortedPosition(packets, divider) ==
    CHOOSE k \in 1..(Len(packets) + 2) : SortPackets(WithDividers(packets))[k] = divider

EqualsDivider(p) == cmp(p, divider_1) = "Equal" \/ cmp(p, divider_2) = "Equal"

NoDividerAmong(packets) == \A k \in 1..Len(packets) : ~EqualsDivider(packets[k])

\* C15: when no packet of the input compares equal to [[2]] or [[6]], part2
\* returns the product of the positions, counted from 1, that [[2]] and
\* [[6]] have in the sorted list of the packets and the two dividers; the
\* list sorted here is sorted by the order of the packets.
C15_Part2IsPositions ==
    (day = "day13" /\ pc = "done" /\ NoDividerAmong(result.packets)) =>
        /\ IsSorted(SortPackets(WithDividers(result.packets)))
        /\ result.product = SortedPosition(result.packets, divider_1)
                                * SortedPosition(result.packets, divider_2)

\* The example: 16 packets, none equal to a divider, the dividers 10th and
\* 14th.
C15_Witness ==
    /\ day = "day13" /\ pc = "done"
    /\ input = Day13Example
    /\ NoDividerAmong(result.packets)
    /\ result.d1_pos = 10 /\ result.d2_pos = 14
    /\ result.product = 140

----------------------------------------------------------------------------
(* day11: the two simulate_rounds, of src/bin/day11.rs and of              *)
(* src/bin/day11/main.rs with monkey.rs.  A monkey is a record of items,   *)
(* operation, arg1, arg2, test, if_true and if_false for both; monkeys are *)
(* numbered from 0.                                                       *)

\* Option<u64>: "old" is None.
Old == <<>>
Some(v) == <<v>>

\* unwrap_or(item)
ArgOr(arg, item) == IF arg = Old THEN item ELSE arg[1]

\* Operation::eval of day11.rs
Operation_eval(operation, a, b) == IF operation = "Add" THEN a + b ELSE a * b

\* The relief of part1 and of part2.
Relieved(relief, worry) ==
    IF relief.kind = "third" THEN worry \div 3 ELSE worry % relief.shared_mod

\* day11.rs: the item of the drain loop after eval and relief.
Inspected(m, relief, item) ==
    Relieved(relief, Operation_eval(m.operation, ArgOr(m.arg1, item), ArgOr(m.arg2, item)))

\* day11.rs: the items of m that are pushed to t (to_true) or to f, in the
\* order of the drain.
PushedTo(m, relief, to_true) ==
    SelectSeq([k \in 1..Len(m.items) |-> Inspected(m, relief, m.items[k])],
              LAMBDA item : (item % m.test = 0) = to_true)

\* day11.rs: the three borrow_mut of a turn succeed: the cells exist and no
\* cell is borrowed twice.
BorrowsSucceed(monkeys, i) ==
    /\ monkeys[i].if_true \in DOMAIN monkeys
    /\ monkeys[i].if_false \in DOMAIN monkeys
    /\ monkeys[i].if_true # i
    /\ monkeys[i].if_false # i
    /\ monkeys[i].if_false # monkeys[i].if_true

\* day11.rs: the monkeys after the turn of monkey i.
DrainedTurn(monkeys, i, relief) ==
    [j \in DOMAIN monkeys |->
        IF j = i THEN [monkeys[j] EXCEPT !.items = <<>>]
        ELSE IF j = monkeys[i].if_true
             THEN [monkeys[j] EXCEPT !.items = @ \o PushedTo(monkeys[i], relief, TRUE)]
        ELSE IF j = monkeys[i].if_false
             THEN [monkeys[j] EXCEPT !.items = @ \o PushedTo(monkeys[i], relief, FALSE)]
        ELSE monkeys[j]]

\* monkey.rs: LogicContainer::increase_worry
increase_worry(brain, item) ==
    IF brain.operation = "Add" THEN ArgOr(brain.arg1, item) + ArgOr(brain.arg2, item)
    ELSE ArgOr(brain.arg1, item) * ArgOr(brain.arg2, item)

\* monkey.rs: LogicContainer::throw_to
throw_to(brain, item) == IF item % brain.test = 0 THEN brain.if_true ELSE brain.if_false

\* monkey.rs: Monkey::yeet of a monkey with items: the last item goes.
Yeeted(m, item) == [throw_to |-> throw_to(m, item), item |-> item]

yeet(m, relief) == Yeeted(m, Relieved(relief, increase_worry(m, m.items[Len(m.items)])))

\* monkey.rs: Monkey::yoink
yoink(m, item) == [m EXCEPT !.items = Append(@, item)]

Popped(m) == [m EXCEPT !.items = SubSeq(@, 1, Len(@) - 1)]

\* main.rs: the monkeys after monkey i has thrown y.
Thrown(monkeys, i, y) ==
    [j \in DOMAIN monkeys |->
        IF j = i THEN Popped(monkeys[j])
        ELSE IF j = y.throw_to THEN yoink(monkeys[j], y.item)
        ELSE monkeys[j]]

RECURSIVE ProductOfTests(_, _)
ProductOfTests(monkeys, n) ==
    IF n = 0 THEN 1 ELSE monkeys[n - 1].test * ProductOfTests(monkeys, n - 1)

\* Monkey::shared_mod, and the product of part2 of day11.rs
shared_mod(monkeys) == ProductOfTests(monkeys, Cardinality(DOMAIN monkeys))

----------------------------------------------------------------------------
(* day11 as a state machine: simulate_rounds of day11.rs runs on the       *)
(* monkeys, then simulate_rounds of day11/main.rs runs on the same         *)
(* monkeys, rounds and relief.                                             *)

MaxRounds == 2

Day11Items == {<<>>, <<1, 4>>}

\* new = old * old with test 2, new = old + 3 with test 3
Day11Brains ==
    {[operation |-> "Multiply", arg1 |-> Old, arg2 |-> Old, test |-> 2],
     [operation |-> "Add", arg1 |-> Old, arg2 |-> Some(3), test |-> 3]}

MonkeyOf(items, brain, if_true, if_false) ==
    [items |-> items, operation |-> brain.operation, arg1 |-> brain.arg1, arg2 |-> brain.arg2,
     test |-> brain.test, if_true |-> if_true, if_false |-> if_false]

\* Two monkeys with every pair of targets, the thrower among them.
Day11Pairs ==
    [0..1 -> {MonkeyOf(items, brain, t, f) :
                 items \in Day11Items, brain \in Day11Brains, t \in 0..1, f \in 0..1}]

\* Three monkeys that throw to the next and the one before, or to the next
\* in both cases.
Day11Triples ==
    {[i \in 0..2 |-> MonkeyOf(c[i].items, c[i].brain, (i + 1) % 3,
                              IF c[i].both THEN (i + 1) % 3 ELSE (i + 2) % 3)] :
        c \in [0..2 -> [items : Day11Items, brain : Day11Brains, both : BOOLEAN]]}

Day11Reliefs(monkeys) ==
    {[kind |-> "third", shared_mod |-> 0], [kind |-> "modulo", shared_mod |-> shared_mod(monkeys)]}

InitDay11 ==
    /\ day = "day11"
    /\ \E monkeys \in Day11Pairs \cup Day11Triples :
          input \in [monkeys : {monkeys}, rounds : 0..MaxRounds, relief : Day11Reliefs(monkeys)]
    /\ pc = "start"
    /\ stdout = ""
    /\ result = <<>>

Day11Len == Cardinality(DOMAIN input.monkeys)

Simulation(monkeys) ==
    [monkeys |-> monkeys, inspections |-> [j \in DOMAIN monkeys |-> 0], round |-> 0, i |-> 0]

\* Both calls start from the monkeys of the input.
Day11Start ==
    /\ day = "day11" /\ pc = "start"
    /\ result' = [a |-> Simulation(input.monkeys), b |-> Simulation(input.monkeys),
                  aborted |-> "none"]
    /\ pc' = "day11.rs"
    /\ UNCHANGED <<day, input, stdout>>

\* The loop counters after a turn.
NextTurn(sim) ==
    IF sim.i + 1 < Day11Len THEN [sim EXCEPT !.i = @ + 1]
    ELSE [sim EXCEPT !.i = 0, !.round = @ + 1]

\* day11.rs: one turn of the inner loop; a borrow_mut of a cell that is
\* borrowed panics.
Day11Turn ==
    /\ day = "day11" /\ pc = "day11.rs"
    /\ result.a.round < input.rounds
    /\ IF ~BorrowsSucceed(result.a.monkeys, result.a.i)
       THEN pc' = "panicked" /\ result' = [result EXCEPT !.aborted = "day11.rs"]
       ELSE /\ pc' = pc
            /\ result' = [result EXCEPT !.a = NextTurn([result.a EXCEPT
                  !.inspections[result.a.i] = @ + Len(result.a.monkeys[result.a.i].items),
                  !.monkeys = DrainedTurn(result.a.monkeys, result.a.i, input.relief)])]
    /\ UNCHANGED <<day, input, stdout>>

\* day11.rs: simulate_rounds returns.
Day11Return ==
    /\ day = "day11" /\ pc = "day11.rs"
    /\ result.a.round >= input.rounds
    /\ pc' = "day11/main.rs"
    /\ UNCHANGED <<day, input, stdout, result>>

\* main.rs: one turn of the while let loop with an item; assert_ne! panics
\* when the monkey throws to itself, monkeys[throw_to] when there is no such
\* monkey.
Day11Yeet ==
    /\ day = "day11" /\ pc = "day11/main.rs"
    /\ result.b.round < input.rounds
    /\ result.b.monkeys[result.b.i].items # <<>>
    /\ LET y == yeet(result.b.monkeys[result.b.i], input.relief) IN
       IF y.throw_to = result.b.i \/ y.throw_to \notin DOMAIN result.b.monkeys
       THEN pc' = "panicked" /\ result' = [result EXCEPT !.aborted = "day11/main.rs"]
       ELSE /\ pc' = pc
            /\ result' = [result EXCEPT
                  !.b.inspections[result.b.i] = @ + 1,
                  !.b.monkeys = Thrown(result.b.monkeys, result.b.i, y)]
    /\ UNCHANGED <<day, input, stdout>>

\* main.rs: yeet returns None and the next monkey has its turn.
Day11Next ==
    /\ day = "day11" /\ pc = "day11/main.rs"
    /\ result.b.round < input.rounds
    /\ result.b.monkeys[result.b.i].items = <<>>
    /\ result' = [result EXCEPT !.b = NextTurn(result.b)]
    /\ UNCHANGED <<day, input, pc, stdout>>

\* main.rs: simulate_rounds returns.
Day11ReturnB ==
    /\ day = "day11" /\ pc = "day11/main.rs"
    /\ result.b.round >= input.rounds
    /\ pc' = "done"
    /\ UNCHANGED <<day, input, stdout, result>>

NextDay11 ==
    Day11Start \/ Day11Turn \/ Day11Return \/ Day11Yeet \/ Day11Next \/ Day11ReturnB

SpecDay11 == InitDay11 /\ [][NextDay11]_vars

\* No monkey of the input throws to itself.
TargetsDiffer(monkeys) ==
    \A j \in DOMAIN monkeys : monkeys[j].if_true # j /\ monkeys[j].if_false # j

\* C16: on monkeys none of which throws to itself, whatever the rounds and
\* the relief, neither simulate_rounds aborts and both return the same
\* inspection counts.
C16_SameInspections ==
    (day = "day11" /\ TargetsDiffer(input.monkeys)) =>
        /\ pc # "panicked"
        /\ pc = "done" => result.a.inspections = result.b.inspections

----------------------------------------------------------------------------
(* day01: the groups of the input, read off the text.                      *)

\* The sums of the groups of lines between blank lines, in the order of the
\* text; "open" says that the running group has a line.
RECURSIVE GroupSums(_, _, _)
GroupSums(ls, sum, open) ==
    IF ls = <<>> THEN IF open THEN <<sum>> ELSE <<>>
    ELSE IF Head(ls) = "" THEN (IF open THEN <<sum>> ELSE <<>>) \o GroupSums(Tail(ls), 0, FALSE)
    ELSE GroupSums(Tail(ls), sum + ParseUnsigned(Head(ls)).val, TRUE)

Day01Groups(text) == GroupSums(Lines(text), 0, FALSE)

\* Every line is blank or a number, and there is a group.
Day01WellFormed(text) ==
    /\ \A k \in 1..Len(Lines(text)) : Lines(text)[k] = "" \/ ParseUnsigned(Lines(text)[k]).ok
    /\ Day01Groups(text) # <<>>

LargestGroup(groups) ==
    CHOOSE m \in {groups[k] : k \in 1..Len(groups)} : \A k \in 1..Len(groups) : groups[k] <= m

ThreeLargestGroups(groups) == SumSeq(Take(SortDesc(groups), 3))

Day01Line1(text) == "Part 1: " \o ToString(LargestGroup(Day01Groups(text))) \o "\n"
Day01Line2(text) == "Part 2: " \o ToString(ThreeLargestGroups(Day01Groups(text))) \o "\n"

\* C18: on a text of numbers with at least one group, day01 does not fail,
\* its Part 1 is the largest sum of a group and its Part 2 the sum of the
\* three largest sums, every group counted: also the last group of a text
\* that does not end with a blank line.
C18_EveryGroupCounted ==
    (day = "day01" /\ Day01WellFormed(input)) =>
        /\ pc # "failed"
        /\ pc = "part1" => stdout = Day01Line1(input)
        /\ pc = "done" => stdout = Day01Line1(input) \o Day01Line2(input)
====
